---- MODULE Spec2Model ----
(***************************************************************************)
(* Verification model of the drone-automation flight-safety core:          *)
(*   - the flight command ledger of the command dispatcher                 *)
(*     (command_handlers.py: check_command_conflicts, execute_command);    *)
(*   - the controller maneuvers (controller.py: land, rtl, emergency_land, *)
(*     emergency_disarm, set_throttle);                                    *)
(*   - the controller's battery-emergency negotiation                      *)
(*     (controller.py: handle_battery_emergency and                        *)
(*     handle_battery_emergency_response);                                 *)
(*   - the waypoint mission engine and its emergency prompt                *)
(*     (waypoint_manager.py).                                              *)
(*   - the readiness gate in its two implementations                       *)
(*     (controller.py: _vehicle_ready; flight_safety.py:                   *)
(*     validate_vehicle_ready);                                            *)
(*   - the autonomous waypoint mission and its failsafe watchdog thread    *)
(*     (autonomous_waypoint_mission.py);                                   *)
(*   - the timed hold mission (controller.py: fly_timed_mission);          *)
(*   - the heartbeat watchdog (connection.py: start_heartbeat_monitor);    *)
(*   - the bounded waits, the waypoint processing, the SITL detection      *)
(*     (sitl_config.py) and abort_mission (waypoint_manager.py).           *)
(* Each part has a specification of its own (SpecLedger, SpecManeuver,     *)
(* SpecNegotiation, SpecGate, SpecEngine, SpecTimed, SpecHeartbeat,        *)
(* SpecWait, SpecDisarm, SpecProcessing, SpecSitl, SpecAbort); the         *)
(* variables of the other parts stay at their initial value.               *)
(***************************************************************************)
EXTENDS Integers, Sequences, FiniteSets, TLC

VARIABLES
    \* ---- command ledger (command_handlers.py) ----
    now,                 \* time.time(), in seconds
    active_commands,     \* keys of the dict _active_commands
    last_command_time,   \* the dict _last_command_time: command -> start time
    tasks,               \* the execute_command coroutines of the session
    lastReq,             \* what the latest execute_command call saw and did
    \* ---- controller maneuvers (controller.py) ----
    vehicle,             \* the vehicle link: telemetry and pending commands
    stack,               \* the call stack of the foreground maneuver coroutine
    op,                  \* the maneuver requested of the controller
    issued,              \* the vehicle commands the maneuver issued, in order
    \* ---- emergency negotiation (controller.py, waypoint_manager.py) ----
    clock,               \* half-seconds since the prompt was published
    neg,                 \* the handle_battery_emergency coroutine
    ctl_prompts,         \* the dict Controller._emergency_prompts
    cleanups,            \* the scheduled cleanup_prompt tasks
    mis,                 \* the execute_mission coroutine and its mission
    wm_prompts,          \* the dict WaypointManager.emergency_prompts
    responses,           \* the operator responses submitted, in order
    \* ---- readiness gate (controller.py, flight_safety.py) ----
    gate,                \* a call of the gate: its input and its answers
    \* ---- autonomous waypoint mission (autonomous_waypoint_mission.py) ----
    eng,                 \* the execute_waypoint_mission coroutine, its flags
    fsafe,               \* the failsafe_loop thread
    tele,                \* the telemetry the mission and its watchdog read
    elog,                \* vehicle commands and emergency triggers, in order
    \* ---- timed hold mission (controller.py) ----
    timed,               \* the fly_timed_mission coroutine and its mission
    \* ---- heartbeat watchdog (connection.py) ----
    hbmon,               \* the monitor task of start_heartbeat_monitor
    \* ---- bounded waits (controller.py and its callers) ----
    wait,                \* the polling loop of one bounded wait
    \* ---- waypoint processing ----
    wpp,                 \* a waypoint list and what a processor made of it
    \* ---- SITL detection (sitl_config.py, controller.py) ----
    sitl                 \* the session's connection and its GPS check

ledgerVars == <<now, active_commands, last_command_time, tasks, lastReq>>
maneuverVars == <<vehicle, stack, op, issued>>
negotiationVars ==
    <<clock, neg, ctl_prompts, cleanups, mis, wm_prompts, responses>>

engineVars == <<eng, fsafe, tele, elog>>
watchVars == <<engineVars, timed, hbmon, wait, wpp, sitl>>

vars == <<ledgerVars, maneuverVars, negotiationVars, gate, watchVars>>

\* What the actions of one part leave unchanged.
notLedger == <<maneuverVars, negotiationVars, gate, watchVars>>
notManeuver == <<ledgerVars, negotiationVars, gate, watchVars>>
notNegotiation == <<ledgerVars, maneuverVars, gate, watchVars>>
notGate == <<ledgerVars, maneuverVars, negotiationVars, watchVars>>
notEngine ==
    <<ledgerVars, maneuverVars, negotiationVars, gate, timed, hbmon, wait,
      wpp, sitl>>
notTimed ==
    <<ledgerVars, maneuverVars, negotiationVars, gate, engineVars, hbmon, wait,
      wpp, sitl>>
notHeartbeat ==
    <<ledgerVars, maneuverVars, negotiationVars, gate, engineVars, timed, wait,
      wpp, sitl>>
notProcessing ==
    <<ledgerVars, maneuverVars, negotiationVars, gate, engineVars, timed, hbmon,
      wait, sitl>>
notSitl ==
    <<ledgerVars, maneuverVars, negotiationVars, gate, engineVars, timed, hbmon,
      wait, wpp>>
notWait ==
    <<ledgerVars, maneuverVars, negotiationVars, gate, engineVars, timed, hbmon,
      wpp, sitl>>

\* Bounds of the ledger model: the execute_command calls of a session, the
\* last clock value and the seconds the clock advances at a time.
MaxTasks == 3
MaxTime == 48
TickSeconds == 16

(***************************************************************************)
(* The state of each part before it is used.                               *)
(***************************************************************************)

IdleTask == [cmd |-> "none", st |-> "idle", saw |-> {}]

\* The module globals of command_handlers.py as imported: empty dicts.
LedgerIdle ==
    /\ now = 0
    /\ active_commands = {}
    /\ last_command_time = << >>
    /\ tasks = [t \in 1..MaxTasks |-> IdleTask]
    /\ lastReq = [cmd |-> "none", accepted |-> FALSE,
                  sawActive |-> {}, sawTimed |-> {},
                  activeAfter |-> {}, timedAfter |-> {}]

\* No maneuver requested yet.  calls is the log of the controller methods
\* the maneuver ran, each with what it saw and the branch it took.
NoOp == [name |-> "none", st |-> "idle", confirm |-> FALSE, force |-> FALSE,
         override |-> FALSE, result |-> "none", calls |-> << >>,
         awaited |-> "none"]

\* thr is the override of channel 3, 0 when there is none.
ParkedVehicle == [health |-> "good", alt |-> 0, mode |-> "GUIDED",
                  armed |-> FALSE, home |-> "valid", cmdMode |-> "none",
                  disarmCmd |-> FALSE, thr |-> 0]

\* Controller.__init__: no maneuver is running.
ManeuverIdle ==
    /\ vehicle = ParkedVehicle
    /\ stack = << >>
    /\ op = NoOp
    /\ issued = << >>

\* A maneuver call that was not made.
NoCall == [fn |-> "none", pc |-> "start", force |-> FALSE, override |-> FALSE,
           timeout |-> 0]

\* No battery emergency is being negotiated by the controller.  recorded
\* is the response that handle_battery_emergency_response accepted while
\* the prompt's timeout had not elapsed.
NoNegotiation ==
    [pc |-> "idle", level |-> 0, start_time |-> 0, wake |-> 0,
     user_choice |-> "none", recorded |-> "none", answered_at |-> -1,
     action |-> "none", call |-> NoCall, result |-> "none"]

\* No waypoint mission is running.  raised: check_emergency_conditions
\* has reported a battery emergency during the mission; gotoAfterRaise: a
\* simple_goto was commanded after that; prompted: the prompt ids used;
\* terminal: the first of COMPLETED and ABORTED the status was set to;
\* gotoAfterAbort: a simple_goto was commanded with the status ABORTED.
NoMission ==
    [pc |-> "idle", status |-> "CREATED", wp |-> 0, total |-> 0,
     level |-> 0, voltage |-> 0, raised |-> FALSE, gotoAfterRaise |-> FALSE,
     prompt_id |-> "none", prompted |-> {}, deadline |-> 0,
     outcome |-> "none", action |-> "none", modeCmd |-> "none",
     terminal |-> "none", gotoAfterAbort |-> FALSE]

NegotiationIdle ==
    /\ clock = 0
    /\ neg = NoNegotiation
    /\ ctl_prompts = << >>
    /\ cleanups = {}
    /\ mis = NoMission
    /\ wm_prompts = << >>
    /\ responses = << >>

\* The readiness gate has not been called.
GateIdle == gate = [asked |-> FALSE]

\* AutonomousWaypointMission.__init__: the flags of a new mission object;
\* its coroutine and its failsafe thread have not been started.
NewEngine ==
    [pc |-> "idle", wp |-> 0, total |-> 0, mission_active |-> FALSE,
     manual_override |-> FALSE, stop_monitoring |-> FALSE,
     waypoints_visited |-> 0, result |-> "none"]

NoThread == [pc |-> "unstarted", waited |-> 0]

\* The telemetry of a vehicle that passes pre_flight_safety_checks.
FlightTelemetry == [level |-> 50, fix |-> 3, mode |-> "GUIDED", losses |-> 0]

EngineIdle ==
    /\ eng = NewEngine
    /\ fsafe = NoThread
    /\ tele = FlightTelemetry
    /\ elog = << >>

\* fly_timed_mission has not been called; Controller.current_mission is
\* None.
NoTimedMission ==
    [pc |-> "idle", duration |-> 0, elapsed |-> 0, level |-> 0,
     armed |-> FALSE, broadcast_func |-> FALSE,
     battery_emergency_triggered |-> FALSE, current_mission |-> "none",
     manual_override |-> FALSE, polls_after_override |-> 0,
     polls_after_emergency |-> 0, calls |-> << >>,
     emergency_result |-> "none", result |-> "none"]

TimedIdle == timed = NoTimedMission

\* Connection.__init__ and the first lines of monitor(): no sample taken.
NoMonitor ==
    [monitoring |-> FALSE, consecutive_bad_heartbeats |-> 0,
     samples |-> << >>, triggered_at |-> {}, callbacks |-> 0]

HeartbeatIdle == hbmon = NoMonitor

\* No bounded wait has been entered.
NoWait ==
    [kind |-> "none", pc |-> "idle", elapsed |-> 0, ready_at |-> 0,
     result |-> "none"]

WaitIdle == wait = NoWait

\* No waypoint list has been handed in.
NoProcessing ==
    [input |-> << >>, by |-> "none", accepted |-> FALSE, out |-> << >>]

ProcessingIdle == wpp = NoProcessing

\* Controller.__init__ (is_sitl = False) before a vehicle is connected.
NoSession ==
    [connection_string |-> << >>, is_sitl |-> FALSE, ARMING_CHECK |-> 1,
     setup |-> "none", checks |-> 0, eph |-> 0, groundspeed |-> 0,
     relaxed |-> FALSE, gps |-> "none"]

SitlIdle == sitl = NoSession

WatchIdle ==
    /\ EngineIdle /\ TimedIdle /\ HeartbeatIdle /\ WaitIdle
    /\ ProcessingIdle /\ SitlIdle

(***************************************************************************)
(* Part 1: the flight command ledger                                       *)
(***************************************************************************)

\* command_handlers.py:11
COMMAND_TIMEOUT == 30

\* check_command_conflicts: flight_commands / critical_commands
flight_commands == {"takeoff", "land", "rtl", "fly_timed"}
critical_commands == {"emergency_disarm", "emergency_land"}

\* The command types requested in the model: the two lists above and one
\* command that is in neither, the mission execution of the dispatcher in
\* src/communication/command_handlers.py (the same check and ledger).
RequestedCommands ==
    flight_commands \cup critical_commands \cup {"execute_waypoint_mission"}

TaskIds == 1..MaxTasks

\* check_command_conflicts, "Clean up old commands": the entries whose
\* start time is older than COMMAND_TIMEOUT.
ExpiredCommands(times, t) ==
    {c \in DOMAIN times : t - times[c] > COMMAND_TIMEOUT}

\* _active_commands after the clean-up loop.
ActiveAfterExpiry(act, times, t) == act \ ExpiredCommands(times, t)

\* _last_command_time after the clean-up loop.
TimesAfterExpiry(times, t) ==
    [c \in (DOMAIN times) \ ExpiredCommands(times, t) |-> times[c]]

\* active_flight_cmds of check_command_conflicts.
ActiveFlightCmds(act) == {c \in act : c \in flight_commands}

\* A conflict check that looks for the requested command only, not for any
\* active flight command.
ConflictOkSameCommand(cmd, act) ==
    ~(cmd \in flight_commands /\ cmd \in act)

\* The verdict of check_command_conflicts (its first return value), given
\* _active_commands as left by the clean-up.
ConflictOk(cmd, act) ==
    ~(cmd \in flight_commands /\ ActiveFlightCmds(act) # {})

\* _active_commands when check_command_conflicts returns: an emergency
\* command clears it.
ActiveAfterCheck(cmd, act) ==
    IF ConflictOk(cmd, act) /\ cmd \in critical_commands THEN {} ELSE act

\* _last_command_time when check_command_conflicts returns: the emergency
\* branch clears _active_commands only.
TimesAfterCheck(cmd, times) == times

\* execute_command up to the first await of the handler: the conflict check,
\* then either the conflict error result or the ledger entry and the handler
\* call.  Task ids are handed out in order.
Request(t, cmd) ==
    /\ tasks[t].st = "idle"
    /\ \A u \in TaskIds : u < t => tasks[u].st # "idle"
    /\ LET act1 == ActiveAfterExpiry(active_commands, last_command_time, now)
           tim1 == TimesAfterExpiry(last_command_time, now)
           ok   == ConflictOk(cmd, act1)
           act2 == ActiveAfterCheck(cmd, act1)
           tim2 == TimesAfterCheck(cmd, tim1)
           act3 == IF ok THEN act2 \cup {cmd} ELSE act2
           tim3 == IF ok
                   THEN [c \in (DOMAIN tim2) \cup {cmd} |->
                            IF c = cmd THEN now ELSE tim2[c]]
                   ELSE tim2
       IN /\ active_commands' = act3
          /\ last_command_time' = tim3
          /\ tasks' = [tasks EXCEPT ![t] =
                          [cmd |-> cmd,
                           st |-> IF ok THEN "running" ELSE "conflict",
                           saw |-> act1]]
          /\ lastReq' = [cmd |-> cmd, accepted |-> ok,
                         sawActive |-> act1, sawTimed |-> DOMAIN tim1,
                         activeAfter |-> act3, timedAfter |-> DOMAIN tim3]
    /\ UNCHANGED <<now, notLedger>>

\* The handler returns (or raises): the finally clause of execute_command
\* pops the command's active flag.
Complete(t) ==
    /\ tasks[t].st = "running"
    /\ active_commands' = active_commands \ {tasks[t].cmd}
    /\ tasks' = [tasks EXCEPT ![t].st = "returned"]
    /\ UNCHANGED <<now, last_command_time, lastReq, notLedger>>

\* Time passes while handlers are suspended.
Tick ==
    /\ now + TickSeconds <= MaxTime
    /\ now' = now + TickSeconds
    /\ UNCHANGED <<active_commands, last_command_time, tasks, lastReq,
                   notLedger>>

NextLedger ==
    \/ \E t \in TaskIds, cmd \in RequestedCommands : Request(t, cmd)
    \/ \E t \in TaskIds : Complete(t)
    \/ Tick

InitLedger ==
    LedgerIdle /\ ManeuverIdle /\ NegotiationIdle /\ GateIdle /\ WatchIdle

SpecLedger == InitLedger /\ [][NextLedger]_vars

\* The flight class as the specification names it (takeoff, land, RTL,
\* timed mission).
FlightClass == {"takeoff", "land", "rtl", "fly_timed"}
EmergencyClass == {"emergency_land", "emergency_disarm"}

\* The flight-class handlers that were started and have not returned.
FlightHandlersInFlight ==
    {t \in TaskIds : tasks[t].st = "running" /\ tasks[t].cmd \in FlightClass}

\* C1: at most one flight-class handler is executing at any time, under
\* every interleaving of requests, completions, ledger expiry and
\* emergency-class commands.
C1_OneFlightHandlerInFlight == Cardinality(FlightHandlersInFlight) <= 1

\* C2: a flight-class command requested while the ledger (as the conflict
\* check reads it, stale entries expired) records another flight-class
\* command active gets the conflict result: its handler is not started,
\* now or later, and the ledger is left as it was, the active command's
\* flag and start time included.
C2_ConflictRejected ==
    /\ (lastReq.cmd \in FlightClass /\ lastReq.sawActive \cap FlightClass # {})
          => /\ ~lastReq.accepted
             /\ lastReq.activeAfter = lastReq.sawActive
             /\ lastReq.timedAfter = lastReq.sawTimed
             /\ lastReq.sawActive \subseteq lastReq.timedAfter
    /\ \A t \in TaskIds :
          (tasks[t].cmd \in FlightClass /\ tasks[t].saw \cap FlightClass # {})
              => tasks[t].st = "conflict"

\* C2 witness: takeoff is requested while land is active and is rejected.
C2_Witness ==
    /\ lastReq.cmd = "takeoff"
    /\ "land" \in lastReq.sawActive
    /\ ~lastReq.accepted
    /\ "land" \in active_commands
    /\ \E t \in TaskIds : tasks[t].cmd = "takeoff" /\ tasks[t].st = "conflict"

\* C3: an emergency-class command is never rejected, and once it is
\* accepted the ledger holds neither the active flag nor the start time of
\* any command that was in flight before it.
C3_EmergencyClearsLedger ==
    lastReq.cmd \in EmergencyClass
        => /\ lastReq.accepted
           /\ \A c \in lastReq.sawActive \ {lastReq.cmd} :
                 c \notin lastReq.activeAfter /\ c \notin lastReq.timedAfter

\* The mission-execution handlers that were started and have not returned:
\* each runs the navigation loop of a mission.
MissionHandlersInFlight ==
    {t \in TaskIds : /\ tasks[t].st = "running"
                     /\ tasks[t].cmd = "execute_waypoint_mission"}

\* C20: at most one mission is active at a time: a mission-execution
\* request that arrives while a mission handler has not returned gets the
\* conflict result, and no second handler is started.
C20_OneMissionActive ==
    /\ Cardinality(MissionHandlersInFlight) <= 1
    /\ \A t \in TaskIds :
          (/\ tasks[t].cmd = "execute_waypoint_mission"
           /\ \E u \in TaskIds :
                 /\ u < t
                 /\ tasks[u].cmd = "execute_waypoint_mission"
                 /\ tasks[u].st = "running")
              => tasks[t].st = "conflict"

\* The part of C3 the dispatcher keeps: the emergency command is accepted
\* and no active flag of an earlier command is left.
LedgerFlagsClearedByEmergency ==
    lastReq.cmd \in EmergencyClass
        => /\ lastReq.accepted
           /\ lastReq.activeAfter = {lastReq.cmd}

(***************************************************************************)
(* Part 2: the controller maneuvers (controller.py)                        *)
(*                                                                         *)
(* Altitudes are in decimetres, voltages in decivolts, heartbeat ages in   *)
(* seconds, battery levels in percent, timeouts in seconds.                *)
(***************************************************************************)

\* safety_config.py, class SafetyConfig
MAX_HEARTBEAT_AGE == 5
MIN_GPS_FIX == 3
MIN_GPS_SATELLITES == 6
MIN_BATTERY_LEVEL == 30
MIN_BATTERY_VOLTAGE_3S == 111
MIN_BATTERY_VOLTAGE_4S == 148
MIN_BATTERY_VOLTAGE_6S == 222

\* _vehicle_ready: the GPS floor of a command that needs no armable vehicle.
BASIC_GPS_FIX == 2
\* _get_min_battery_voltage: the cell-count thresholds (20 V, 13 V).
VOLTAGE_ABOVE_6S == 200
VOLTAGE_ABOVE_4S == 130

\* emergency_disarm: "if current_alt > 2.0"
DISARM_ALT_LIMIT == 20
\* land: "if current_alt < 1.0" (already on ground)
ON_GROUND_ALT == 10
\* land: "current_alt < 0.5 and not armed" (touchdown)
TOUCHDOWN_ALT == 5

\* The default wait_timeout of land and rtl, and the ones emergency_land
\* passes down.
LAND_WAIT_TIMEOUT == 60
RTL_WAIT_TIMEOUT == 120
EMERGENCY_RTL_TIMEOUT == 60
EMERGENCY_LAND_TIMEOUT == 30

\* set_throttle: the PWM range of the throttle channel.
PWM_MIN == 1000
PWM_SPAN == 1000

\* Controller._get_min_battery_voltage
MinBatteryVoltage(voltage) ==
    IF voltage > VOLTAGE_ABOVE_6S THEN MIN_BATTERY_VOLTAGE_6S
    ELSE IF voltage > VOLTAGE_ABOVE_4S THEN MIN_BATTERY_VOLTAGE_4S
    ELSE MIN_BATTERY_VOLTAGE_3S

\* Controller._vehicle_ready on a telemetry snapshot s.  A field the link
\* does not report (None, or a missing attribute) has its has* flag false.
VehicleReady(s, require_armable, emergency_override) ==
    /\ s.connected
    /\ ~(s.hasHeartbeat /\ s.last_heartbeat > MAX_HEARTBEAT_AGE)
    /\ ~(require_armable /\ ~s.is_armable)
    /\ s.hasGps =>
          /\ IF require_armable /\ s.fix < MIN_GPS_FIX THEN FALSE
             ELSE ~(s.fix < BASIC_GPS_FIX)
          /\ ~(require_armable /\ s.satellites < MIN_GPS_SATELLITES)
    /\ (~emergency_override /\ s.hasBattery) =>
          /\ ~(s.hasLevel /\ s.level < MIN_BATTERY_LEVEL)
          /\ ~(s.hasVoltage /\ s.voltage < MinBatteryVoltage(s.voltage))
    /\ s.hasStatus =>
          ~(require_armable /\ s.status \notin {"STANDBY", "ACTIVE"})

\* set_throttle: the percentage clamped to 0..100 and converted to PWM.
ThrottlePwm(percent) ==
    LET clamped == IF percent < 0 THEN 0
                   ELSE IF percent > 100 THEN 100 ELSE percent
    IN PWM_MIN + (clamped * PWM_SPAN) \div 100

\* A healthy telemetry snapshot, and the ways the model lets it degrade.
GoodSnapshot ==
    [connected |-> TRUE, hasHeartbeat |-> TRUE, last_heartbeat |-> 1,
     is_armable |-> TRUE, hasGps |-> TRUE, fix |-> 3, satellites |-> 9,
     hasBattery |-> TRUE, hasLevel |-> TRUE, level |-> 80,
     hasVoltage |-> TRUE, voltage |-> 120,
     hasStatus |-> TRUE, status |-> "ACTIVE"]

Healths == {"good", "low_battery", "thin_battery", "stale_link", "no_fix",
            "disconnected"}

Snapshot(health) ==
    CASE health = "good"         -> GoodSnapshot
      [] health = "low_battery"  -> [GoodSnapshot EXCEPT !.level = 20]
      [] health = "thin_battery" -> [GoodSnapshot EXCEPT !.voltage = 112]
      [] health = "stale_link"   -> [GoodSnapshot EXCEPT !.last_heartbeat = 9]
      [] health = "no_fix"       -> [GoodSnapshot EXCEPT !.fix = 1]
      [] health = "disconnected" -> [GoodSnapshot EXCEPT !.connected = FALSE]

\* The altitudes the vehicle reports: on the ground, below touchdown
\* height, between touchdown height and 1 m, between 1 m and 2 m, exactly
\* 2 m, just above 2 m, at cruise height.
AltValues == {0, 4, 8, 15, 20, 21, 100}
Homes == {"unset", "zero", "valid"}

\* A home test that takes the (0,0) sentinel for a home position.
HomeSet(home) == home # "unset"

\* "home and not (home.lat == 0.0 and home.lon == 0.0)" of emergency_land,
\* and its negation in rtl.
HomeValid(home) == home # "unset" /\ home # "zero"

\* The connectivity test of emergency_disarm and emergency_land (these do
\* not go through the readiness gate).
Connected(v) == Snapshot(v.health).connected

\* An altitude test with the limit at 3 m.
TooHighToDisarmAboveThree(alt) == alt > DISARM_ALT_LIMIT + ON_GROUND_ALT

\* emergency_disarm: "if current_alt > 2.0" -- emergency land instead.
TooHighToDisarm(alt) == alt > DISARM_ALT_LIMIT

\* land: "if current_alt < 1.0" -- already on ground.
AlreadyOnGround(alt) == alt < ON_GROUND_ALT

\* A land that never hands over to RTL.
LandNeverUsesRtl(force_land_here) == FALSE

\* land: "if not force_land_here" -- use RTL instead of landing here.
LandUsesRtl(force_land_here) == ~force_land_here

\* land: "if current_alt < 0.5 and not armed" -- touchdown complete.
Touchdown(v) == v.alt < TOUCHDOWN_ALT /\ ~v.armed

Frame(fn, pc, force, override, timeout) ==
    [fn |-> fn, pc |-> pc, force |-> force, override |-> override,
     timeout |-> timeout]

Top == stack[Len(stack)]
Running(fn, pc) ==
    /\ op.st = "running"
    /\ stack # << >>
    /\ Top.fn = fn
    /\ Top.pc = pc

\* The program points at which the coroutine is suspended in a sleep; the
\* vehicle changes only while it is.
SuspendedPcs == {"sleep", "wait_mode", "loop", "wait_disarm", "wait_armed"}
Suspended == op.st = "running" /\ stack # << >> /\ Top.pc \in SuspendedPcs

\* "return await callee(...)": the caller returns what the callee returns.
\* Unwind drops the frames that wait in such a call.
RECURSIVE Unwind(_)
Unwind(stk) ==
    IF stk = << >> THEN stk
    ELSE IF stk[Len(stk)].pc = "tail" THEN Unwind(SubSeq(stk, 1, Len(stk) - 1))
    ELSE stk

\* The stack after the running function returns.
AfterReturn == Unwind(SubSeq(stack, 1, Len(stack) - 1))

\* The log entry of the running function: what it saw, the branch it took.
Call(path) ==
    [fn |-> Top.fn, force |-> Top.force, override |-> Top.override,
     timeout |-> Top.timeout, health |-> vehicle.health, alt |-> vehicle.alt,
     armed |-> vehicle.armed, home |-> vehicle.home, path |-> path]

Logged(path) == [op EXCEPT !.calls = Append(@, Call(path))]

\* The running function returns val.  With o the maneuver record so far:
\* the maneuver ends when the last frame returns; a caller that awaits the
\* result without returning it (emergency_disarm awaiting set_throttle)
\* resumes at its next program point with the value in op.awaited.
Return(val, o) ==
    /\ stack' = AfterReturn
    /\ op' = IF AfterReturn = << >>
             THEN [o EXCEPT !.st = "done", !.result = val]
             ELSE [o EXCEPT !.awaited = val]

\* The running function calls callee and returns its result.
TailCall(callee) ==
    stack' = SubSeq(stack, 1, Len(stack) - 1)
                \o << [Top EXCEPT !.pc = "tail"], callee >>

\* The running function awaits callee and resumes at pc.
AwaitCall(callee, pc) ==
    stack' = SubSeq(stack, 1, Len(stack) - 1)
                \o << [Top EXCEPT !.pc = pc], callee >>

Goto(pc) == stack' = [stack EXCEPT ![Len(stack)].pc = pc]

\* A command sent over the vehicle link, with the function that sent it.
\* mode is the mode of a mode command, pwm the value of a channel override.
Issue(cmd, mode, pwm) ==
    issued' = Append(issued, [cmd |-> cmd, mode |-> mode, pwm |-> pwm,
                              by |-> Top.fn, force |-> Top.force,
                              alt |-> vehicle.alt])

InitManeuver ==
    /\ LedgerIdle
    /\ NegotiationIdle
    /\ GateIdle
    /\ WatchIdle
    /\ vehicle \in {v \in [health : Healths, alt : AltValues,
                          mode : {"GUIDED", "STABILIZE"},
                          armed : BOOLEAN, home : Homes, cmdMode : {"none"},
                          disarmCmd : {FALSE}, thr : {0}] :
                       ~v.armed => v.alt = 0}
    /\ stack = << >>
    /\ op = NoOp
    /\ issued = << >>

\* A maneuver is requested of the controller.
StartOp(name, confirm, force, override, timeout) ==
    /\ op.st = "idle"
    /\ op' = [NoOp EXCEPT !.name = name, !.st = "running", !.confirm = confirm,
                          !.force = force, !.override = override]
    /\ stack' = << Frame(name, "start", force, override, timeout) >>
    /\ UNCHANGED <<vehicle, issued, notManeuver>>

\* handle_emergency_disarm passes confirm_emergency=True; a direct caller
\* may leave it out.
StartEmergencyDisarm ==
    \E c \in BOOLEAN : StartOp("emergency_disarm", c, FALSE, FALSE, 0)
StartLand ==
    \E f, o \in BOOLEAN : StartOp("land", FALSE, f, o, LAND_WAIT_TIMEOUT)
StartRtl ==
    \E o \in BOOLEAN : StartOp("rtl", FALSE, FALSE, o, RTL_WAIT_TIMEOUT)
StartEmergencyLand ==
    StartOp("emergency_land", FALSE, FALSE, FALSE, 0)

\* emergency_disarm up to its first suspension.  Without the confirmation
\* it raises; not connected: False; already disarmed: True; above 2 m it
\* returns what emergency_land returns; otherwise it awaits set_throttle(0).
EmergencyDisarmStart ==
    /\ Running("emergency_disarm", "start")
    /\ IF ~op.confirm
       THEN /\ stack' = << >>
            /\ op' = [Logged("raised") EXCEPT !.st = "done", !.result = "raised"]
       ELSE IF ~Connected(vehicle)
       THEN Return("false", Logged("not_connected"))
       ELSE IF ~vehicle.armed
       THEN Return("true", Logged("already_disarmed"))
       ELSE IF TooHighToDisarm(vehicle.alt)
       THEN /\ TailCall(Frame("emergency_land", "start", FALSE, FALSE, 0))
            /\ op' = Logged("emergency_land")
       ELSE /\ AwaitCall(Frame("set_throttle", "start", FALSE, FALSE, 0),
                         "after_throttle")
            /\ op' = Logged("disarm")
    /\ UNCHANGED <<vehicle, issued, notManeuver>>

\* set_throttle(0) up to "await asyncio.sleep(0.1)": the readiness gate
\* (no emergency override), then the override of channel 3.
SetThrottleStart ==
    /\ Running("set_throttle", "start")
    /\ IF ~VehicleReady(Snapshot(vehicle.health), FALSE, FALSE)
       THEN /\ Return("false", Logged("not_ready"))
            /\ UNCHANGED <<vehicle, issued>>
       ELSE /\ vehicle' = [vehicle EXCEPT !.thr = ThrottlePwm(0)]
            /\ Issue("throttle", "none", ThrottlePwm(0))
            /\ Goto("sleep")
            /\ op' = Logged("override")
    /\ UNCHANGED notManeuver

\* set_throttle after the sleep: the override is read back.
SetThrottleVerify ==
    /\ Running("set_throttle", "sleep")
    /\ Return(IF vehicle.thr = ThrottlePwm(0) THEN "true" ELSE "false", op)
    /\ UNCHANGED <<vehicle, issued, notManeuver>>

\* emergency_disarm after set_throttle returned (its result is not looked
\* at): "vehicle.armed = False", then the wait for the disarm.
EmergencyDisarmCutPower ==
    /\ Running("emergency_disarm", "after_throttle")
    /\ vehicle' = [vehicle EXCEPT !.disarmCmd = TRUE]
    /\ Issue("disarm", "none", 0)
    /\ Goto("wait_disarm")
    /\ UNCHANGED <<op, notManeuver>>

\* _wait_for_condition(not armed, 8.0) of emergency_disarm sees the vehicle
\* disarmed.
EmergencyDisarmConfirmed ==
    /\ Running("emergency_disarm", "wait_disarm")
    /\ ~vehicle.armed
    /\ Return("true", op)
    /\ UNCHANGED <<vehicle, issued, notManeuver>>

\* ... or runs out of time with the vehicle still armed.
EmergencyDisarmTimeout ==
    /\ Running("emergency_disarm", "wait_disarm")
    /\ vehicle.armed
    /\ Return("false", op)
    /\ UNCHANGED <<vehicle, issued, notManeuver>>

\* emergency_land: RTL with the emergency override when home is valid,
\* else a forced landing at the current position.
EmergencyLandStart ==
    /\ Running("emergency_land", "start")
    /\ IF ~Connected(vehicle)
       THEN Return("false", Logged("not_connected"))
       ELSE IF HomeValid(vehicle.home)
       THEN /\ TailCall(Frame("rtl", "start", FALSE, TRUE,
                              EMERGENCY_RTL_TIMEOUT))
            /\ op' = Logged("rtl")
       ELSE /\ TailCall(Frame("land", "start", TRUE, TRUE,
                              EMERGENCY_LAND_TIMEOUT))
            /\ op' = Logged("land_here")
    /\ UNCHANGED <<vehicle, issued, notManeuver>>

\* rtl up to the wait for RTL mode.
RtlStart ==
    /\ Running("rtl", "start")
    /\ IF ~VehicleReady(Snapshot(vehicle.health), FALSE, Top.override)
       THEN /\ Return("false", Logged("not_ready"))
            /\ UNCHANGED <<vehicle, issued>>
       ELSE IF ~HomeValid(vehicle.home)
       THEN /\ TailCall(Frame("emergency_land", "start", FALSE, FALSE, 0))
            /\ op' = Logged("emergency_land")
            /\ UNCHANGED <<vehicle, issued>>
       ELSE /\ vehicle' = [vehicle EXCEPT !.cmdMode = "RTL"]
            /\ Issue("mode", "RTL", 0)
            /\ Goto("wait_mode")
            /\ op' = Logged("rtl")
    /\ UNCHANGED notManeuver

\* _wait_for_condition(mode == RTL, 10.0) of rtl.
RtlModeConfirmed ==
    /\ Running("rtl", "wait_mode")
    /\ vehicle.mode = "RTL"
    /\ Goto("loop")
    /\ UNCHANGED <<vehicle, op, issued, notManeuver>>

RtlModeTimeout ==
    /\ Running("rtl", "wait_mode")
    /\ vehicle.mode # "RTL"
    /\ Return("false", op)
    /\ UNCHANGED <<vehicle, issued, notManeuver>>

\* The polling loop of rtl: done when the vehicle is disarmed.
RtlLanded ==
    /\ Running("rtl", "loop")
    /\ ~vehicle.armed
    /\ Return("true", op)
    /\ UNCHANGED <<vehicle, issued, notManeuver>>

\* ... or "elapsed > wait_timeout" with the vehicle still armed.
RtlTimeout ==
    /\ Running("rtl", "loop")
    /\ vehicle.armed
    /\ Return("false", op)
    /\ UNCHANGED <<vehicle, issued, notManeuver>>

\* land up to the wait for LAND mode.
LandStart ==
    /\ Running("land", "start")
    /\ IF ~VehicleReady(Snapshot(vehicle.health), FALSE, Top.override)
       THEN /\ Return("false", Logged("not_ready"))
            /\ UNCHANGED <<vehicle, issued>>
       ELSE IF AlreadyOnGround(vehicle.alt)
       THEN /\ Return("true", Logged("on_ground"))
            /\ UNCHANGED <<vehicle, issued>>
       ELSE IF LandUsesRtl(Top.force)
       THEN /\ TailCall(Frame("rtl", "start", FALSE, Top.override,
                              Top.timeout))
            /\ op' = Logged("rtl")
            /\ UNCHANGED <<vehicle, issued>>
       ELSE /\ vehicle' = [vehicle EXCEPT !.cmdMode = "LAND"]
            /\ Issue("mode", "LAND", 0)
            /\ Goto("wait_mode")
            /\ op' = Logged("land_here")
    /\ UNCHANGED notManeuver

\* _wait_for_condition(mode == LAND, 10.0) of land.
LandModeConfirmed ==
    /\ Running("land", "wait_mode")
    /\ vehicle.mode = "LAND"
    /\ Goto("loop")
    /\ UNCHANGED <<vehicle, op, issued, notManeuver>>

LandModeTimeout ==
    /\ Running("land", "wait_mode")
    /\ vehicle.mode # "LAND"
    /\ Return("false", op)
    /\ UNCHANGED <<vehicle, issued, notManeuver>>

\* The descent loop of land: done at touchdown.
LandTouchdown ==
    /\ Running("land", "loop")
    /\ Touchdown(vehicle)
    /\ Return("true", op)
    /\ UNCHANGED <<vehicle, issued, notManeuver>>

\* ... or "time.time() - start_time > wait_timeout" before touchdown.
LandTimeout ==
    /\ Running("land", "loop")
    /\ ~Touchdown(vehicle)
    /\ Return("false", op)
    /\ UNCHANGED <<vehicle, issued, notManeuver>>

(***************************************************************************)
(* arm and takeoff                                                         *)
(***************************************************************************)

\* A telemetry field that reads None.
NoReading == -1

\* pre_arm_throttle_check: "if throttle_channel > 1100"
SAFE_THROTTLE_PWM == 1100
\* takeoff: "voltage < min + 0.3", "current_alt >= altitude * 0.95"
BATTERY_MARGIN == 3
TAKEOFF_PERCENT == 95
\* validate_gps_integrity: max_hdop (in tenths) and max_speed, for hardware
\* and for SITL
MAX_HDOP == 20
MAX_HDOP_SITL == 2000
MAX_SPEED == 50
MAX_SPEED_SITL == 100

\* The altitude takeoff is asked for (2.1 m), and what the link reports at
\* the pre-flight check: rc_channels.throttle, gps_0.eph (in tenths) and
\* groundspeed.
TakeoffAltitude == 21
ThrottleReadings == {NoReading, 1000, 1100, 1101}
EphReadings == {10, 30}
SpeedReadings == {NoReading, 5, 60}

\* A throttle check that lets every reading pass.
ThrottleSafeAlways(pwm) == TRUE

\* pre_arm_throttle_check: without rc_channels, or without a throttle
\* reading, there is nothing to check.
ThrottleSafe(pwm) == pwm = NoReading \/ ~(pwm > SAFE_THROTTLE_PWM)

\* pre_arm_throttle_check: the readiness gate, then the throttle.
PreArmThrottleCheck(s, pwm) == VehicleReady(s, FALSE, FALSE) /\ ThrottleSafe(pwm)

\* SafetyConfig.validate_gps_integrity on the eph and groundspeed takeoff
\* hands it: a comparison with None raises.
GpsIntegrity(eph, groundspeed, is_sitl) ==
    IF eph = NoReading THEN "raised"
    ELSE IF eph > (IF is_sitl THEN MAX_HDOP_SITL ELSE MAX_HDOP) THEN "failed"
    ELSE IF groundspeed = NoReading THEN "raised"
    ELSE IF groundspeed > (IF is_sitl THEN MAX_SPEED_SITL ELSE MAX_SPEED)
    THEN "failed"
    ELSE "passed"

\* takeoff, "Check battery under load".
BatteryUnderLoad(s) ==
    IF ~s.hasBattery THEN "passed"
    ELSE IF ~s.hasVoltage THEN "raised"
    ELSE IF s.voltage < MinBatteryVoltage(s.voltage) + BATTERY_MARGIN
    THEN "failed"
    ELSE "passed"

\* takeoff, the pre-flight try block: "failed" returns False; an exception
\* ("raised") leaves the block and takeoff goes on.
PreFlightChecks(s, eph, groundspeed, is_sitl) ==
    LET gps == IF s.hasGps THEN GpsIntegrity(eph, groundspeed, is_sitl)
               ELSE "passed"
    IN IF gps # "passed" THEN gps ELSE BatteryUnderLoad(s)

\* takeoff: "if current_alt >= altitude * 0.95"
TargetReached(alt) == alt * 100 >= TakeoffAltitude * TAKEOFF_PERCENT

\* The log entry of the running function with the readings it took.
CallWith(path, readings) ==
    [op EXCEPT !.calls = Append(@, Call(path) @@ readings)]

StartArm == StartOp("arm", FALSE, FALSE, FALSE, 0)
StartTakeoff == StartOp("takeoff", FALSE, FALSE, FALSE, 0)

\* arm from "Check if already armed" on: the throttle safety check, the arm
\* command, then the wait for the confirmation.
ArmInGuided ==
    IF vehicle.armed
    THEN /\ Return("true", Logged("already_armed"))
         /\ UNCHANGED <<vehicle, issued>>
    ELSE \E pwm \in ThrottleReadings :
            LET read == [mode |-> vehicle.mode, throttle |-> pwm]
            IN IF ~PreArmThrottleCheck(Snapshot(vehicle.health), pwm)
               THEN /\ Return("false", CallWith("throttle_check_failed", read))
                    /\ UNCHANGED <<vehicle, issued>>
               ELSE /\ Issue("arm", "none", 0)
                    /\ Goto("wait_armed")
                    /\ op' = CallWith("arm_sent", read)
                    /\ UNCHANGED vehicle

\* arm up to its first wait: the readiness gate with require_armable, then
\* GUIDED mode is commanded unless the vehicle is in it.
ArmStart ==
    /\ Running("arm", "start")
    /\ IF ~VehicleReady(Snapshot(vehicle.health), TRUE, FALSE)
       THEN /\ Return("false", Logged("not_ready"))
            /\ UNCHANGED <<vehicle, issued>>
       ELSE IF vehicle.mode # "GUIDED"
       THEN /\ vehicle' = [vehicle EXCEPT !.cmdMode = "GUIDED"]
            /\ Issue("mode", "GUIDED", 0)
            /\ Goto("wait_mode")
            /\ op' = Logged("set_guided")
       ELSE ArmInGuided
    /\ UNCHANGED notManeuver

\* _wait_for_condition(mode == GUIDED, wait_mode_timeout) of arm.
ArmModeConfirmed ==
    /\ Running("arm", "wait_mode")
    /\ vehicle.mode = "GUIDED"
    /\ ArmInGuided
    /\ UNCHANGED notManeuver

ArmModeTimeout ==
    /\ Running("arm", "wait_mode")
    /\ vehicle.mode # "GUIDED"
    /\ Return("false", Logged("mode_timeout"))
    /\ UNCHANGED <<vehicle, issued, notManeuver>>

\* _wait_for_condition(armed, wait_arm_timeout) of arm.
ArmConfirmed ==
    /\ Running("arm", "wait_armed")
    /\ vehicle.armed
    /\ Return("true", Logged("armed"))
    /\ UNCHANGED <<vehicle, issued, notManeuver>>

ArmTimeout ==
    /\ Running("arm", "wait_armed")
    /\ ~vehicle.armed
    /\ Return("false", Logged("arm_timeout"))
    /\ UNCHANGED <<vehicle, issued, notManeuver>>

\* takeoff up to its climb loop: the readiness gate, armed, GUIDED, the
\* pre-flight checks, then simple_takeoff.
TakeoffStart ==
    /\ Running("takeoff", "start")
    /\ \E eph \in EphReadings, groundspeed \in SpeedReadings,
          is_sitl \in BOOLEAN :
          LET s == Snapshot(vehicle.health)
              pre == PreFlightChecks(s, eph, groundspeed, is_sitl)
              read == [mode |-> vehicle.mode, eph |-> eph,
                       groundspeed |-> groundspeed, is_sitl |-> is_sitl]
          IN IF ~VehicleReady(s, FALSE, FALSE)
             THEN /\ Return("false", Logged("not_ready"))
                  /\ UNCHANGED issued
             ELSE IF ~vehicle.armed
             THEN /\ Return("false", Logged("not_armed"))
                  /\ UNCHANGED issued
             ELSE IF vehicle.mode # "GUIDED"
             THEN /\ Return("false", Logged("not_guided"))
                  /\ UNCHANGED issued
             ELSE IF pre = "failed"
             THEN /\ Return("false", CallWith("preflight_failed", read))
                  /\ UNCHANGED issued
             ELSE /\ Issue("takeoff", "none", 0)
                  /\ Goto("loop")
                  /\ op' = CallWith("takeoff_sent", read)
    /\ UNCHANGED <<vehicle, notManeuver>>

\* The climb loop of takeoff: done at 95 % of the target altitude.
TakeoffReached ==
    /\ Running("takeoff", "loop")
    /\ TargetReached(vehicle.alt)
    /\ Return("true", Logged("reached"))
    /\ UNCHANGED <<vehicle, issued, notManeuver>>

\* ... or "time.time() - start_time > wait_timeout" below it.
TakeoffTimeout ==
    /\ Running("takeoff", "loop")
    /\ ~TargetReached(vehicle.alt)
    /\ Return("false", Logged("climb_timeout"))
    /\ UNCHANGED <<vehicle, issued, notManeuver>>

StartDisarm == StartOp("disarm", FALSE, FALSE, FALSE, 0)
StartArmAndTakeoff == StartOp("arm_and_takeoff", FALSE, FALSE, FALSE, 0)

\* disarm up to its wait: the readiness gate, "Already disarmed", then the
\* altitude is read and printed - above 2 m with a warning - and
\* "vehicle.armed = False" is sent whatever it was.
DisarmStart ==
    /\ Running("disarm", "start")
    /\ IF ~VehicleReady(Snapshot(vehicle.health), FALSE, FALSE)
       THEN /\ Return("false", Logged("not_ready"))
            /\ UNCHANGED <<vehicle, issued>>
       ELSE IF ~vehicle.armed
       THEN /\ Return("true", Logged("already_disarmed"))
            /\ UNCHANGED <<vehicle, issued>>
       ELSE /\ vehicle' = [vehicle EXCEPT !.disarmCmd = TRUE]
            /\ Issue("disarm", "none", 0)
            /\ Goto("wait_disarm")
            /\ op' = Logged(IF TooHighToDisarm(vehicle.alt)
                            THEN "disarm_sent_with_warning"
                            ELSE "disarm_sent")
    /\ UNCHANGED notManeuver

\* _wait_for_condition(not armed, wait_disarm_timeout) of disarm.
DisarmConfirmed ==
    /\ Running("disarm", "wait_disarm")
    /\ ~vehicle.armed
    /\ Return("true", op)
    /\ UNCHANGED <<vehicle, issued, notManeuver>>

DisarmTimeout ==
    /\ Running("disarm", "wait_disarm")
    /\ vehicle.armed
    /\ Return("false", op)
    /\ UNCHANGED <<vehicle, issued, notManeuver>>

\* arm_and_takeoff, step 1: arm is awaited.
ArmAndTakeoffStart ==
    /\ Running("arm_and_takeoff", "start")
    /\ AwaitCall(Frame("arm", "start", FALSE, FALSE, 0), "after_arm")
    /\ op' = Logged("arm")
    /\ UNCHANGED <<vehicle, issued, notManeuver>>

\* arm has returned: False ends the sequence, True is followed by
\* "await asyncio.sleep(0.5)".
ArmAndTakeoffArmed ==
    /\ Running("arm_and_takeoff", "after_arm")
    /\ IF op.awaited = "true"
       THEN Goto("sleep") /\ UNCHANGED op
       ELSE Return("false", Logged("arm_failed"))
    /\ UNCHANGED <<vehicle, issued, notManeuver>>

\* Step 2: takeoff is awaited.
ArmAndTakeoffClimb ==
    /\ Running("arm_and_takeoff", "sleep")
    /\ AwaitCall(Frame("takeoff", "start", FALSE, FALSE, 0), "after_takeoff")
    /\ op' = Logged("takeoff")
    /\ UNCHANGED <<vehicle, issued, notManeuver>>

\* takeoff has returned: after a False, "Try to disarm safely".
ArmAndTakeoffClimbed ==
    /\ Running("arm_and_takeoff", "after_takeoff")
    /\ IF op.awaited = "true"
       THEN Return("true", Logged("airborne"))
       ELSE /\ AwaitCall(Frame("disarm", "start", FALSE, FALSE, 0),
                         "after_disarm")
            /\ op' = Logged("takeoff_failed")
    /\ UNCHANGED <<vehicle, issued, notManeuver>>

\* disarm has returned (its result is not looked at).
ArmAndTakeoffGivesUp ==
    /\ Running("arm_and_takeoff", "after_disarm")
    /\ Return("false", op)
    /\ UNCHANGED <<vehicle, issued, notManeuver>>

(***************************************************************************)
(* The vehicle, while the coroutine sleeps.                                *)
(***************************************************************************)

\* The autopilot switches to the commanded mode.
VehicleModeChange ==
    /\ Suspended
    /\ vehicle.cmdMode # "none"
    /\ vehicle' = [vehicle EXCEPT !.mode = vehicle.cmdMode, !.cmdMode = "none"]
    /\ UNCHANGED <<stack, op, issued, notManeuver>>

\* The vehicle climbs or descends; disarmed it can only come down.
VehicleAltitudeChange ==
    /\ Suspended
    /\ \E a \in AltValues \ {vehicle.alt} :
          /\ vehicle.armed \/ a < vehicle.alt
          /\ vehicle' = [vehicle EXCEPT !.alt = a]
    /\ UNCHANGED <<stack, op, issued, notManeuver>>

\* The vehicle disarms: on command, or by itself after landing.
VehicleDisarms ==
    /\ Suspended
    /\ vehicle.armed
    /\ \/ vehicle.disarmCmd
       \/ vehicle.mode \in {"LAND", "RTL"} /\ vehicle.alt = 0
    /\ vehicle' = [vehicle EXCEPT !.armed = FALSE, !.disarmCmd = FALSE]
    /\ UNCHANGED <<stack, op, issued, notManeuver>>

\* The autopilot accepts the arm command.
VehicleArms ==
    /\ Suspended
    /\ Top.pc = "wait_armed"
    /\ ~vehicle.armed
    /\ vehicle' = [vehicle EXCEPT !.armed = TRUE]
    /\ UNCHANGED <<stack, op, issued, notManeuver>>

\* Battery, link and GPS degrade or recover.
VehicleHealthChange ==
    /\ Suspended
    /\ \E h \in Healths \ {vehicle.health} :
          vehicle' = [vehicle EXCEPT !.health = h]
    /\ UNCHANGED <<stack, op, issued, notManeuver>>

\* The channel override is released behind the coroutine's back.
VehicleOverrideLost ==
    /\ Suspended
    /\ vehicle.thr # 0
    /\ vehicle' = [vehicle EXCEPT !.thr = 0]
    /\ UNCHANGED <<stack, op, issued, notManeuver>>

NextManeuver ==
    \/ StartEmergencyDisarm
    \/ StartLand
    \/ StartRtl
    \/ StartEmergencyLand
    \/ EmergencyDisarmStart
    \/ SetThrottleStart
    \/ SetThrottleVerify
    \/ EmergencyDisarmCutPower
    \/ EmergencyDisarmConfirmed
    \/ EmergencyDisarmTimeout
    \/ EmergencyLandStart
    \/ RtlStart
    \/ RtlModeConfirmed
    \/ RtlModeTimeout
    \/ RtlLanded
    \/ RtlTimeout
    \/ LandStart
    \/ LandModeConfirmed
    \/ LandModeTimeout
    \/ LandTouchdown
    \/ LandTimeout
    \/ StartArm
    \/ StartTakeoff
    \/ ArmStart
    \/ ArmModeConfirmed
    \/ ArmModeTimeout
    \/ ArmConfirmed
    \/ ArmTimeout
    \/ TakeoffStart
    \/ TakeoffReached
    \/ TakeoffTimeout
    \/ VehicleArms
    \/ VehicleModeChange
    \/ VehicleAltitudeChange
    \/ VehicleDisarms
    \/ VehicleHealthChange
    \/ VehicleOverrideLost

SpecManeuver == InitManeuver /\ [][NextManeuver]_vars

\* disarm and arm_and_takeoff, with the arm and takeoff they call, on a
\* vehicle with a valid home position whose battery, link and GPS stay as
\* they are when the maneuver is requested.
NextDisarm ==
    \/ StartDisarm
    \/ StartArmAndTakeoff
    \/ DisarmStart
    \/ DisarmConfirmed
    \/ DisarmTimeout
    \/ ArmAndTakeoffStart
    \/ ArmAndTakeoffArmed
    \/ ArmAndTakeoffClimb
    \/ ArmAndTakeoffClimbed
    \/ ArmAndTakeoffGivesUp
    \/ ArmStart
    \/ ArmModeConfirmed
    \/ ArmModeTimeout
    \/ ArmConfirmed
    \/ ArmTimeout
    \/ TakeoffStart
    \/ TakeoffReached
    \/ TakeoffTimeout
    \/ VehicleArms
    \/ VehicleModeChange
    \/ VehicleAltitudeChange
    \/ VehicleDisarms

InitDisarm == InitManeuver /\ vehicle.home = "valid"

SpecDisarm == InitDisarm /\ [][NextDisarm]_vars

\* The controller methods the maneuver has entered so far.
Invoked(fn) ==
    \/ \E k \in 1..Len(op.calls) : op.calls[k].fn = fn
    \/ \E k \in 1..Len(stack) : stack[k].fn = fn

\* The positions in the command log of the throttle overrides and the
\* disarm commands.
PowerCuts ==
    {i \in 1..Len(issued) : issued[i].cmd \in {"throttle", "disarm"}}

\* C4: emergency_disarm called with the confirmation while the vehicle is
\* above 2 m sends neither a throttle override nor a disarm command, and
\* (connected and armed) hands over to emergency_land.  A throttle override
\* or a disarm command is sent only when the altitude it read was at most
\* 2 m; the override is then to zero throttle, and the disarm command
\* comes after set_throttle(0) was called and returned.
C4_DisarmOnlyNearGround ==
    (op.name = "emergency_disarm" /\ op.confirm /\ op.calls # << >>) =>
        LET c == op.calls[1]
        IN /\ c.alt > DISARM_ALT_LIMIT =>
                 /\ PowerCuts = {}
                 /\ (c.health # "disconnected" /\ c.armed) =>
                        /\ Invoked("emergency_land")
                        /\ ~Invoked("set_throttle")
           /\ PowerCuts # {} =>
                 /\ c.alt <= DISARM_ALT_LIMIT
                 /\ ~Invoked("emergency_land")
           /\ \A i \in PowerCuts :
                 /\ issued[i].cmd = "throttle" => issued[i].pwm = 1000
                 /\ issued[i].cmd = "disarm" =>
                       /\ \E k \in 1..Len(op.calls) :
                             op.calls[k].fn = "set_throttle"
                       /\ \A j \in PowerCuts :
                             issued[j].cmd = "throttle" => j < i

\* C4 witness: emergency_disarm was confirmed at cruise height; it ran
\* emergency_land, which commanded RTL, and the vehicle came home.
C4_Witness ==
    /\ op.name = "emergency_disarm"
    /\ op.confirm
    /\ op.st = "done"
    /\ op.result = "true"
    /\ op.calls[1].alt = 100
    /\ Len(issued) = 1
    /\ issued[1].cmd = "mode"
    /\ issued[1].mode = "RTL"

\* The same at low height: throttle cut, then disarm, at 1.5 m.
C4_WitnessNearGround ==
    /\ op.name = "emergency_disarm"
    /\ op.confirm
    /\ op.st = "done"
    /\ op.calls[1].alt = 15
    /\ Len(issued) = 2
    /\ issued[1].cmd = "throttle"
    /\ issued[2].cmd = "disarm"

NextCall(k) == IF k < Len(op.calls) THEN op.calls[k + 1] ELSE Top

\* The maneuver ended in a forced landing whose LAND mode was not confirmed.
LandModeNotConfirmed ==
    /\ op.st = "done"
    /\ op.result = "false"
    /\ op.calls # << >>
    /\ op.calls[Len(op.calls)].fn = "land"
    /\ op.calls[Len(op.calls)].path = "land_here"
    /\ vehicle.mode # "LAND"

\* C11: land() returns success only with touchdown observed: the altitude
\* below 0.5 m and the vehicle disarmed.
C11_LandSuccessOnlyOnTouchdown ==
    (op.name = "land" /\ op.st = "done" /\ op.result = "true") =>
        (vehicle.alt < 5 /\ ~vehicle.armed)

\* C12: an rtl() call that finds the home position unset or at (0,0) never
\* commands RTL mode; when it passes the readiness gate it returns what
\* emergency_land returns.  No RTL mode command is sent at all while the
\* home position is invalid.
C12_RtlWithoutHomeLandsInstead ==
    /\ \A i \in 1..Len(issued) :
          (issued[i].cmd = "mode" /\ issued[i].mode = "RTL") =>
              vehicle.home = "valid"
    /\ \A k \in 1..Len(op.calls) :
          LET c == op.calls[k]
          IN (c.fn = "rtl" /\ c.home \in {"unset", "zero"}) =>
                /\ c.path # "rtl"
                /\ VehicleReady(Snapshot(c.health), FALSE, c.override) =>
                      /\ c.path = "emergency_land"
                      /\ k < Len(op.calls) \/ stack # << >>
                      /\ NextCall(k).fn = "emergency_land"

\* C12 witness: rtl() with the home position at (0,0) ran emergency_land,
\* which landed the vehicle where it was.
C12_Witness ==
    /\ op.name = "rtl"
    /\ op.st = "done"
    /\ op.result = "true"
    /\ op.calls[1].home = "zero"
    /\ op.calls[1].alt = 100
    /\ Len(op.calls) = 3
    /\ op.calls[2].fn = "emergency_land"
    /\ op.calls[3].fn = "land"
    /\ Len(issued) = 1
    /\ issued[1].mode = "LAND"

\* C13: emergency_land with the home position unset and no valid GPS fix
\* still commands LAND mode: the forced landing it calls (above 1 m) gets
\* to its mode change.
C13_EmergencyLandWithoutFixLandsHere ==
    \A k \in 2..Len(op.calls) :
        LET c == op.calls[k]
        IN (/\ op.calls[k - 1].fn = "emergency_land"
            /\ c.fn = "land"
            /\ c.home = "unset"
            /\ c.health = "no_fix"
            /\ c.alt >= 10) => c.path = "land_here"

\* C14: emergency_land (connected) calls rtl exactly when the home position
\* is valid, and otherwise the forced landing with the 30 s timeout; when
\* the LAND mode of that landing is not confirmed, the throttle is cut.
C14_EmergencyLandChoice ==
    /\ \A k \in 1..Len(op.calls) :
          LET c == op.calls[k]
          IN (c.fn = "emergency_land" /\ c.path # "not_connected") =>
                /\ c.path = "rtl" <=> c.home = "valid"
                /\ c.path = "land_here" <=> c.home \in {"unset", "zero"}
                /\ c.path = "land_here" =>
                      /\ NextCall(k).fn = "land"
                      /\ NextCall(k).force
                      /\ NextCall(k).timeout = 30
    /\ (op.name = "emergency_land" /\ LandModeNotConfirmed) =>
          \E i \in 1..Len(issued) : issued[i].cmd = "throttle"

\* C15: in an emergency maneuver a failed step starts the next one: when
\* the emergency RTL was commanded and failed, a landing at the current
\* position is commanded; when that landing's mode change failed, the
\* throttle is cut.
C15_FallbackChain ==
    (op.name = "emergency_land" /\ op.st = "done" /\ op.result = "false") =>
        /\ (\E k \in 1..Len(op.calls) :
               op.calls[k].fn = "rtl" /\ op.calls[k].path = "rtl") =>
              \E i \in 1..Len(issued) :
                 issued[i].cmd = "mode" /\ issued[i].mode = "LAND"
        /\ LandModeNotConfirmed =>
              \E i \in 1..Len(issued) : issued[i].cmd = "throttle"

\* The positions in the command log of the arm commands.
ArmCommands == {i \in 1..Len(issued) : issued[i].cmd = "arm"}

C17_TakeoffPreconditions ==
    op.name = "takeoff" =>
        /\ \A i \in 1..Len(issued) :
              issued[i].cmd = "takeoff" =>
                 LET c == op.calls[1]
                     s == Snapshot(c.health)
                 IN /\ c.armed
                    /\ c.mode = "GUIDED"
                    /\ c.eph <= (IF c.is_sitl THEN 2000 ELSE 20)
                    /\ c.groundspeed # -1
                    /\ c.groundspeed <= (IF c.is_sitl THEN 100 ELSE 50)
                    /\ s.voltage >= MinBatteryVoltage(s.voltage) + 3
        /\ op.st = "done" =>
              (op.result = "true" <=>
                  (issued # << >> /\ vehicle.alt * 100 >= 21 * 95))

(***************************************************************************)
(* Part 3: the battery-emergency negotiation of the controller             *)
(*         (handle_battery_emergency, handle_battery_emergency_response)   *)
(*                                                                         *)
(* Time is in half-seconds, the polling interval of the negotiation.       *)
(* Sleeping coroutines wake when they are due: the clock does not pass a   *)
(* due wake-up.                                                            *)
(***************************************************************************)

\* Bounds: the last clock value, the operator responses of a behaviour, the
\* waypoints of a mission.
MaxClock == 64
MaxResponses == 2
MaxWaypoints == 2

\* handle_battery_emergency: timeout_seconds = 10
timeout_seconds == 20
\* handle_battery_emergency: asyncio.sleep(0.5)
POLL_INTERVAL == 1
\* cleanup_prompt: asyncio.sleep(2)
CLEANUP_DELAY == 4
\* fly_timed_mission: "battery_level <= 30" triggers the negotiation
BATTERY_TRIGGER_LEVEL == 30

\* The battery levels at which fly_timed_mission starts the negotiation.
TriggerLevels == {l \in {15, 30, 31} : l <= BATTERY_TRIGGER_LEVEL}

\* "p1" is the prompt id handle_battery_emergency generates; no prompt
\* ever has the id "p2".
PromptIds == {"p1", "p2"}
CtlChoices == {"RTL", "LAND", "HOLD"}

\* Python truthiness of a stored response: None and "" are false.
Truthy(response) == response # "none" /\ response # ""

\* handle_battery_emergency, "Execute chosen action": the action broadcast,
\* the maneuver called and the two results it can return.
BatteryEmergencyAction(user_choice) ==
    IF user_choice = "LAND"
    THEN [action |-> "LAND",
          call |-> Frame("land", "start", TRUE, TRUE, LAND_WAIT_TIMEOUT),
          ok |-> "land", failed |-> "land_failed"]
    ELSE IF user_choice = "RTL"
    THEN [action |-> "RTL",
          call |-> Frame("rtl", "start", FALSE, TRUE, RTL_WAIT_TIMEOUT),
          ok |-> "rtl", failed |-> "rtl_failed"]
    ELSE [action |-> "RTL_TIMEOUT",
          call |-> Frame("rtl", "start", FALSE, TRUE, RTL_WAIT_TIMEOUT),
          ok |-> "timeout_rtl", failed |-> "timeout_rtl_failed"]

\* handle_battery_emergency up to the polling loop: the readiness gate
\* (without emergency override), then the prompt is published and stored.
StartBatteryEmergency ==
    /\ neg.pc = "idle"
    /\ mis.pc = "idle"
    /\ \E level \in TriggerLevels :
          IF ~VehicleReady([GoodSnapshot EXCEPT !.level = level], FALSE, FALSE)
          THEN /\ neg' = [NoNegotiation EXCEPT !.pc = "done", !.level = level,
                                               !.result = "error"]
               /\ UNCHANGED ctl_prompts
          ELSE /\ neg' = [NoNegotiation EXCEPT !.pc = "polling",
                                               !.level = level,
                                               !.start_time = clock,
                                               !.wake = clock]
               /\ ctl_prompts' = ("p1" :> [start_time |-> clock,
                                           timeout |-> timeout_seconds,
                                           response |-> "none"])
    /\ UNCHANGED <<clock, cleanups, mis, wm_prompts, responses, notNegotiation>>

\* The negotiation leaves the loop with user_choice and starts the maneuver.
Decide(user_choice) ==
    neg' = [neg EXCEPT !.pc = "acting", !.user_choice = user_choice,
                       !.action = BatteryEmergencyAction(user_choice).action,
                       !.call = BatteryEmergencyAction(user_choice).call]

\* One turn of "while elapsed < timeout_seconds": a stored response ends
\* the loop, else it sleeps; the loop condition failing ends it too.
PollBatteryEmergency ==
    /\ neg.pc = "polling"
    /\ clock >= neg.wake
    /\ IF clock - neg.start_time < timeout_seconds
       THEN IF "p1" \in DOMAIN ctl_prompts /\ Truthy(ctl_prompts["p1"].response)
            THEN Decide(ctl_prompts["p1"].response)
            ELSE neg' = [neg EXCEPT !.wake = clock + POLL_INTERVAL]
       ELSE Decide("none")
    /\ UNCHANGED <<clock, ctl_prompts, cleanups, mis, wm_prompts, responses,
                   notNegotiation>>

\* The maneuver returns and handle_battery_emergency returns its outcome.
BatteryEmergencyReturns ==
    /\ neg.pc = "acting"
    /\ \E success \in BOOLEAN :
          neg' = [neg EXCEPT
                     !.pc = "done",
                     !.result = IF success
                                THEN BatteryEmergencyAction(neg.user_choice).ok
                                ELSE BatteryEmergencyAction(neg.user_choice).failed]
    /\ UNCHANGED <<clock, ctl_prompts, cleanups, mis, wm_prompts, responses,
                   notNegotiation>>

\* Controller.handle_battery_emergency_response(prompt_id, choice): False
\* when there is no store or the id is not in it, the choice is not RTL or
\* LAND, or the prompt has a response; else the response is stored and the
\* cleanup scheduled.  The log entry says whether the prompt was ever
\* published (known) and whether its life had ended (resolved).
HandleBatteryEmergencyResponse(prompt_id, choice) ==
    /\ neg.pc # "idle"
    /\ Len(responses) < MaxResponses
    /\ LET found == prompt_id \in DOMAIN ctl_prompts
           ok == /\ found
                 /\ choice \in {"RTL", "LAND"}
                 /\ ~Truthy(ctl_prompts[prompt_id].response)
           known == prompt_id = "p1" /\ neg.result # "error"
           timedOut == \/ neg.pc \in {"acting", "done"}
                       \/ clock - neg.start_time >= timeout_seconds
           resolved == /\ known
                       /\ \/ ~found
                          \/ Truthy(ctl_prompts[prompt_id].response)
                          \/ timedOut
       IN /\ ctl_prompts' =
                IF ok THEN [ctl_prompts EXCEPT ![prompt_id].response = choice]
                ELSE ctl_prompts
          /\ cleanups' =
                IF ok
                THEN cleanups \cup {[id |-> prompt_id,
                                     due |-> clock + CLEANUP_DELAY]}
                ELSE cleanups
          /\ neg' = IF ok
                    THEN [neg EXCEPT
                             !.answered_at = clock,
                             !.recorded = IF timedOut THEN @ ELSE choice]
                    ELSE neg
          /\ responses' = Append(responses,
                [id |-> prompt_id, choice |-> choice, ok |-> ok,
                 known |-> known, resolved |-> resolved, changed |-> ok])
    /\ UNCHANGED <<clock, mis, wm_prompts, notNegotiation>>

\* cleanup_prompt, two seconds after a response was stored.
CleanupPrompt ==
    /\ \E task \in cleanups :
          /\ clock >= task.due
          /\ ctl_prompts' = [p \in (DOMAIN ctl_prompts) \ {task.id} |->
                                ctl_prompts[p]]
          /\ cleanups' = cleanups \ {task}
    /\ UNCHANGED <<clock, neg, mis, wm_prompts, responses, notNegotiation>>

(***************************************************************************)
(* Part 4: the waypoint mission engine and its emergency prompt            *)
(*         (waypoint_manager.py, flight_safety.py)                         *)
(***************************************************************************)

\* WaypointConfig.EMERGENCY_RESPONSE_TIMEOUT = 30.0 (seconds)
EMERGENCY_RESPONSE_TIMEOUT == 60
\* WaypointConfig.EMERGENCY_BATTERY_LEVEL = 20.0 (percent)
EMERGENCY_BATTERY_LEVEL == 20
\* check_emergency_conditions: "level <= 10", "level <= 20"
CRITICAL_LEVEL == 10
LOW_LEVEL == 20

\* The battery readings of the mission model: percent and decivolts.
MissionLevels == {8, 15, 50}
MissionVoltages == {95, 120}

\* The ids of the prompts of the first, second, ... waypoint (the id is
\* made from the time in seconds); no prompt ever has the id "w0".
WmIds == <<"w1", "w2", "w3", "w4">>
WmPromptIds == {"w0", "w1", "w2"}
\* What an operator may send as the choice: the handler passes it on as is.
WmChoices == {"RTL", "LAND", "rtl", "HOLD", ""}

\* str.upper() on the choices of the model.
Upper(choice) ==
    IF choice = "rtl" THEN "RTL" ELSE IF choice = "land" THEN "LAND" ELSE choice

\* FlightSafetyManager.check_emergency_conditions, the battery part (the
\* GPS and link emergencies carry neither BATTERY nor CRITICAL).
CheckEmergencyConditions(level, voltage) ==
    (IF level <= CRITICAL_LEVEL THEN {"CRITICAL_BATTERY_LEVEL"}
     ELSE IF level <= LOW_LEVEL THEN {"LOW_BATTERY_LEVEL"}
     ELSE {})
    \cup (IF voltage * 10 < MinBatteryVoltage(voltage) * 9
          THEN {"CRITICAL_BATTERY_VOLTAGE"} ELSE {})

\* "[e for e in emergencies if 'BATTERY' in e]"
BatteryEmergencies(emergencies) ==
    emergencies \cap {"CRITICAL_BATTERY_LEVEL", "LOW_BATTERY_LEVEL",
                      "CRITICAL_BATTERY_VOLTAGE"}

\* "[e for e in emergencies if 'CRITICAL' in e]"
CriticalEmergencies(emergencies) ==
    emergencies \cap {"CRITICAL_BATTERY_LEVEL", "CRITICAL_BATTERY_VOLTAGE"}

\* _prompt_battery_emergency_choice: the action taken on timeout.
DefaultAction(battery_level) ==
    IF battery_level > EMERGENCY_BATTERY_LEVEL THEN "RTL" ELSE "LAND"

\* execute_mission from "mission.status = ACTIVE" on: the first waypoint.
StartMission ==
    /\ mis.pc = "idle"
    /\ neg.pc = "idle"
    /\ \E total \in 1..MaxWaypoints, level \in MissionLevels,
          voltage \in MissionVoltages :
          mis' = [NoMission EXCEPT !.pc = "precheck", !.status = "ACTIVE",
                                   !.wp = 1, !.total = total,
                                   !.level = level, !.voltage = voltage]
    /\ UNCHANGED <<clock, neg, ctl_prompts, cleanups, wm_prompts, responses,
                   notNegotiation>>

\* The waypoint fails: execute_mission aborts the mission and returns.
Aborted(m) ==
    [m EXCEPT !.pc = "done", !.status = "ABORTED",
              !.terminal = IF @ = "none" THEN "ABORTED" ELSE @]

\* vehicle.simple_goto(target_location), then the approach is monitored.
GotoCommanded(m) ==
    [m EXCEPT !.pc = "flying", !.gotoAfterRaise = @ \/ m.raised,
              !.gotoAfterAbort = @ \/ m.status = "ABORTED"]

\* _execute_waypoint up to its first wait.  A battery emergency at the
\* pre-waypoint check enters _handle_waypoint_battery_emergency: LOITER,
\* then the prompt is stored and published; if that raises, RTL is
\* commanded and "RTL" returned, which fails the waypoint.  Without a
\* battery emergency the goto is commanded.  The clock is restarted with
\* the prompt: the times of a prompt are measured from its creation.
PreWaypointCheck ==
    /\ mis.pc = "precheck"
    /\ LET emergencies == CheckEmergencyConditions(mis.level, mis.voltage)
           id == WmIds[mis.wp]
       IN IF BatteryEmergencies(emergencies) # {}
          THEN \E raises \in BOOLEAN :
                 IF raises
                 THEN /\ mis' = Aborted([mis EXCEPT !.raised = TRUE,
                                                    !.outcome = "error",
                                                    !.action = "RTL",
                                                    !.modeCmd = "RTL"])
                      /\ UNCHANGED <<clock, wm_prompts>>
                 ELSE /\ mis' = [mis EXCEPT
                                    !.pc = "prompting", !.raised = TRUE,
                                    !.prompt_id = id,
                                    !.prompted = @ \cup {id},
                                    !.deadline = EMERGENCY_RESPONSE_TIMEOUT,
                                    !.modeCmd = "LOITER"]
                      /\ wm_prompts' = (id :> [battery_level |-> mis.level,
                                               timestamp |-> 0,
                                               response |-> "none"])
                                       @@ wm_prompts
                      /\ clock' = 0
          ELSE /\ mis' = GotoCommanded(mis)
               /\ UNCHANGED <<clock, wm_prompts>>
    /\ UNCHANGED <<neg, ctl_prompts, cleanups, responses, notNegotiation>>

\* _prompt_battery_emergency_choice finds a response before the timeout:
\* the prompt is deleted, RTL or LAND is commanded if the upper-cased
\* choice is one of them, and the upper-cased choice returned.
\* _execute_waypoint fails the waypoint when it is RTL or LAND, and goes on
\* to the goto otherwise.
PromptAnswered ==
    /\ mis.pc = "prompting"
    /\ clock < mis.deadline
    /\ mis.prompt_id \in DOMAIN wm_prompts
    /\ Truthy(wm_prompts[mis.prompt_id].response)
    /\ LET action == Upper(wm_prompts[mis.prompt_id].response)
           m == [mis EXCEPT !.outcome = "response", !.action = action,
                            !.modeCmd = IF action \in {"RTL", "LAND"}
                                        THEN action ELSE @]
       IN mis' = IF action \in {"RTL", "LAND"} THEN Aborted(m)
                 ELSE GotoCommanded(m)
    /\ wm_prompts' = [p \in (DOMAIN wm_prompts) \ {mis.prompt_id} |->
                         wm_prompts[p]]
    /\ UNCHANGED <<clock, neg, ctl_prompts, cleanups, responses,
                   notNegotiation>>

\* ... or the timeout passes: the prompt is deleted and the default action
\* for the battery level of the prompt commanded and returned.
PromptTimeout ==
    /\ mis.pc = "prompting"
    /\ clock >= mis.deadline
    /\ LET action == DefaultAction(wm_prompts[mis.prompt_id].battery_level)
       IN mis' = Aborted([mis EXCEPT !.outcome = "timeout", !.action = action,
                                     !.modeCmd = action])
    /\ wm_prompts' = [p \in (DOMAIN wm_prompts) \ {mis.prompt_id} |->
                         wm_prompts[p]]
    /\ UNCHANGED <<clock, neg, ctl_prompts, cleanups, responses,
                   notNegotiation>>

\* WaypointManager.handle_emergency_response(prompt_id, choice), called for
\* the operator's waypoint_emergency_response: a prompt in the store takes
\* the choice as its response, whatever it holds already.
HandleEmergencyResponse(prompt_id, choice) ==
    /\ mis.pc # "idle"
    /\ Len(responses) < MaxResponses
    /\ LET found == prompt_id \in DOMAIN wm_prompts
           known == prompt_id \in mis.prompted
           resolved == /\ known
                       /\ \/ ~found
                          \/ Truthy(wm_prompts[prompt_id].response)
                          \/ clock >= mis.deadline
           after == IF found
                    THEN [wm_prompts EXCEPT ![prompt_id].response = choice]
                    ELSE wm_prompts
       IN /\ wm_prompts' = after
          /\ responses' = Append(responses,
                [id |-> prompt_id, choice |-> choice, ok |-> found,
                 known |-> known, resolved |-> resolved,
                 changed |-> after # wm_prompts])
    /\ UNCHANGED <<clock, neg, ctl_prompts, cleanups, mis, notNegotiation>>

\* The monitoring loop of _execute_waypoint: "distance <= tolerance".  The
\* next waypoint follows, or the mission is complete.
WaypointReached ==
    /\ mis.pc = "flying"
    /\ mis' = IF mis.wp < mis.total
              THEN [mis EXCEPT !.pc = "precheck", !.wp = @ + 1]
              ELSE [mis EXCEPT !.pc = "done", !.status = "COMPLETED",
                               !.terminal = IF @ = "none" THEN "COMPLETED"
                                            ELSE @]
    /\ UNCHANGED <<clock, neg, ctl_prompts, cleanups, wm_prompts, responses,
                   notNegotiation>>

\* "elapsed > self.max_waypoint_time": the waypoint fails.
WaypointTimeout ==
    /\ mis.pc = "flying"
    /\ mis' = Aborted(mis)
    /\ UNCHANGED <<clock, neg, ctl_prompts, cleanups, wm_prompts, responses,
                   notNegotiation>>

\* "Continuous safety monitoring": check_emergency_conditions in the loop.
\* A CRITICAL emergency commands LAND and fails the waypoint; any other
\* emergency is passed over and the flight to the waypoint goes on.
MonitorEmergencies ==
    /\ mis.pc = "flying"
    /\ LET emergencies == CheckEmergencyConditions(mis.level, mis.voltage)
       IN /\ BatteryEmergencies(emergencies) # {}
          /\ IF CriticalEmergencies(emergencies) # {}
             THEN mis' = Aborted([mis EXCEPT !.raised = TRUE,
                                             !.action = "EMERGENCY_LAND",
                                             !.modeCmd = "LAND"])
             ELSE /\ ~mis.raised
                  /\ mis' = [mis EXCEPT !.raised = TRUE]
    /\ UNCHANGED <<clock, neg, ctl_prompts, cleanups, wm_prompts, responses,
                   notNegotiation>>

\* The battery drains during the mission.
BatteryDrains ==
    /\ mis.pc \in {"precheck", "flying"}
    /\ \E level \in MissionLevels, voltage \in MissionVoltages :
          /\ level <= mis.level
          /\ voltage <= mis.voltage
          /\ <<level, voltage>> # <<mis.level, mis.voltage>>
          /\ mis' = [mis EXCEPT !.level = level, !.voltage = voltage]
    /\ UNCHANGED <<clock, neg, ctl_prompts, cleanups, wm_prompts, responses,
                   notNegotiation>>

\* Half a second passes.  No wake-up is overdue: the controller's poll, a
\* cleanup, the mission's poll finding a response or its timeout.
ClockTick ==
    /\ clock < MaxClock
    /\ \/ neg.pc # "idle" /\ neg.result # "error"
       \/ mis.pc = "prompting"
    /\ ~(neg.pc = "polling" /\ clock >= neg.wake)
    /\ \A task \in cleanups : clock < task.due
    /\ mis.pc = "prompting" =>
          /\ clock < mis.deadline
          /\ ~Truthy(wm_prompts[mis.prompt_id].response)
    /\ clock' = clock + 1
    /\ UNCHANGED <<neg, ctl_prompts, cleanups, mis, wm_prompts, responses,
                   notNegotiation>>

NextNegotiation ==
    \/ StartBatteryEmergency
    \/ PollBatteryEmergency
    \/ BatteryEmergencyReturns
    \/ \E id \in PromptIds, choice \in CtlChoices :
          HandleBatteryEmergencyResponse(id, choice)
    \/ CleanupPrompt
    \/ StartMission
    \/ PreWaypointCheck
    \/ PromptAnswered
    \/ PromptTimeout
    \/ \E id \in WmPromptIds, choice \in WmChoices :
          HandleEmergencyResponse(id, choice)
    \/ WaypointReached
    \/ WaypointTimeout
    \/ MonitorEmergencies
    \/ BatteryDrains
    \/ ClockTick

InitNegotiation ==
    LedgerIdle /\ ManeuverIdle /\ NegotiationIdle /\ GateIdle /\ WatchIdle

SpecNegotiation == InitNegotiation /\ [][NextNegotiation]_vars

(***************************************************************************)
(* Properties of the emergency negotiation                                 *)
(***************************************************************************)

\* The entries of the response log.
Responses == {responses[i] : i \in 1..Len(responses)}

\* The controller's negotiation is past its polling loop.
Decided == neg.pc \in {"acting", "done"} /\ neg.result # "error"

\* C5: once a battery emergency is raised during a waypoint mission, no
\* further waypoint goto is commanded and the mission ends with status
\* Aborted, whatever the operator answers and when they do not answer.
C5_BatteryEmergencyAbortsMission ==
    mis.raised =>
        /\ ~mis.gotoAfterRaise
        /\ mis.pc = "done" => mis.status = "ABORTED"

\* C6: a prompt without a recorded response when its timeout elapses
\* resolves to Return-to-Launch, for every battery level, and neither
\* negotiation is still pending after the timeout.
C6_TimeoutResolvesToRtl ==
    /\ (Decided /\ neg.user_choice = "none") => neg.call.fn = "rtl"
    /\ mis.outcome = "timeout" => mis.action = "RTL"
    /\ neg.pc = "polling" => clock - neg.start_time <= timeout_seconds
    /\ mis.pc = "prompting" => clock <= mis.deadline

\* C7: a response for a prompt id that is unknown or already resolved is
\* rejected and changes nothing, and no prompt has two accepted responses.
C7_OneResponsePerPrompt ==
    /\ \A r \in Responses : (~r.known \/ r.resolved) => (~r.ok /\ ~r.changed)
    /\ \A i, j \in 1..Len(responses) :
          (i # j /\ responses[i].id = responses[j].id) =>
              ~(responses[i].ok /\ responses[j].ok)

\* C8: the maneuver of the controller's negotiation matches its outcome: a
\* response LAND recorded before the timeout gives the forced landing with
\* overrides, a recorded RTL gives Return-to-Launch with overrides, and only
\* no recorded response gives the timeout outcome.
C8_ManeuverMatchesOutcome ==
    Decided =>
        /\ neg.recorded = "LAND" =>
              /\ neg.action = "LAND"
              /\ neg.call.fn = "land" /\ neg.call.force /\ neg.call.override
        /\ neg.recorded = "RTL" =>
              /\ neg.action = "RTL"
              /\ neg.call.fn = "rtl" /\ neg.call.override
        /\ neg.recorded = "none" =>
              /\ neg.action = "RTL_TIMEOUT"
              /\ neg.call.fn = "rtl" /\ neg.call.override

\* C9: the life of a controller prompt ends at the first of response
\* recorded and timeout elapsed: from then on no response for it is
\* accepted, and it is out of the store once the grace period is over.
C9_PromptLifetimeEnds ==
    /\ \A r \in Responses : (r.id \in PromptIds /\ r.resolved) => ~r.ok
    /\ "p1" \in DOMAIN ctl_prompts =>
          /\ clock <= neg.start_time + timeout_seconds + CLEANUP_DELAY
          /\ neg.answered_at >= 0 => clock <= neg.answered_at + CLEANUP_DELAY

(***************************************************************************)
(* Part 5: the readiness gate (Controller._vehicle_ready and               *)
(*         FlightSafetyManager.validate_vehicle_ready)                     *)
(*                                                                         *)
(* The limits of config.py that flight_safety.py reads have the values of  *)
(* the SafetyConfig limits above.                                          *)
(***************************************************************************)

\* The telemetry snapshots the gate is called on.
GateSnapshots ==
    [connected : BOOLEAN, hasHeartbeat : BOOLEAN, last_heartbeat : {1, 9},
     is_armable : BOOLEAN, hasGps : BOOLEAN, fix : {1, 2, 3},
     satellites : {4, 9}, hasBattery : BOOLEAN, hasLevel : BOOLEAN,
     level : {20, 80}, hasVoltage : BOOLEAN, voltage : {100, 120},
     hasStatus : BOOLEAN, status : {"ACTIVE", "CRITICAL"}]

\* FlightSafetyManager._validate_gps_safety
ValidateGpsSafety(s, emergency_override) ==
    /\ s.hasGps
    /\ ~(s.fix < MIN_GPS_FIX /\ ~emergency_override)
    /\ ~(s.satellites < MIN_GPS_SATELLITES /\ ~emergency_override)

\* FlightSafetyManager._validate_battery_safety
ValidateBatterySafety(s, emergency_override) ==
    IF ~s.hasBattery \/ (~s.hasVoltage /\ ~s.hasLevel)
    THEN emergency_override
    ELSE /\ ~(s.hasLevel /\ s.level < MIN_BATTERY_LEVEL /\ ~emergency_override)
         /\ ~(/\ s.hasVoltage
              /\ s.voltage < MinBatteryVoltage(s.voltage)
              /\ ~emergency_override)

\* FlightSafetyManager.validate_vehicle_ready
ValidateVehicleReady(s, require_armable, emergency_override) ==
    /\ s.connected
    /\ ~(/\ ~emergency_override
         /\ s.hasHeartbeat
         /\ s.last_heartbeat > MAX_HEARTBEAT_AGE)
    /\ ~(require_armable /\ ~s.is_armable)
    /\ ValidateGpsSafety(s, emergency_override)
    /\ ValidateBatterySafety(s, emergency_override)

\* The gate is called on a snapshot: the answers of the two implementations.
CallGate ==
    /\ ~gate.asked
    /\ \E s \in GateSnapshots, require_armable, emergency_override \in BOOLEAN :
          gate' = [asked |-> TRUE, s |-> s,
                   require_armable |-> require_armable,
                   emergency_override |-> emergency_override,
                   controller |-> VehicleReady(s, require_armable,
                                               emergency_override),
                   manager |-> ValidateVehicleReady(s, require_armable,
                                                    emergency_override)]
    /\ UNCHANGED notGate

NextGate == CallGate

InitGate ==
    LedgerIdle /\ ManeuverIdle /\ NegotiationIdle /\ GateIdle /\ WatchIdle

SpecGate == InitGate /\ [][NextGate]_vars

\* The snapshot with a battery that passes every battery check.
BatteryOk(s) ==
    [s EXCEPT !.hasBattery = TRUE, !.hasLevel = TRUE, !.level = 80,
              !.hasVoltage = TRUE, !.voltage = 120]

\* C18: the link check of the gate is applied on every call: with the link
\* down, or with a heartbeat older than max_heartbeat_age, the answer is
\* not-ready for every combination of require_armable and
\* emergency_override.
C18_StaleLinkNeverReady ==
    (/\ gate.asked
     /\ \/ ~gate.s.connected
        \/ gate.s.hasHeartbeat /\ gate.s.last_heartbeat > 5)
        => (~gate.controller /\ ~gate.manager)

\* C19: emergency_override affects the battery check only: the answer with
\* the override is the answer without it on the same snapshot with a sound
\* battery.  So a snapshot failing a check other than the battery's is not
\* ready with the override either, and one failing the battery check only
\* is ready with it.
C19_OverrideSkipsBatteryOnly ==
    (gate.asked /\ gate.emergency_override) =>
        /\ gate.controller =
              VehicleReady(BatteryOk(gate.s), gate.require_armable, FALSE)
        /\ gate.manager =
              ValidateVehicleReady(BatteryOk(gate.s), gate.require_armable,
                                   FALSE)

\* The same for the controller's gate alone.
ControllerGateSkipsBatteryOnly ==
    gate.asked =>
        /\ (~gate.s.connected
               \/ (gate.s.hasHeartbeat /\ gate.s.last_heartbeat > 5))
              => ~gate.controller
        /\ gate.emergency_override =>
              gate.controller =
                  VehicleReady(BatteryOk(gate.s), gate.require_armable, FALSE)

(***************************************************************************)
(* Part 6.  The autonomous waypoint mission and its failsafe watchdog      *)
(*          (autonomous_waypoint_mission.py)                               *)
(*                                                                         *)
(* execute_waypoint_mission is a coroutine of the event loop; the failsafe *)
(* loop runs in a thread of its own (threading.Thread) and may run between *)
(* any two steps of the coroutine.  The steps of the coroutine are cut     *)
(* where it reads or writes a flag the thread shares with it.              *)
(***************************************************************************)

\* Bounds: the waypoints of an autonomous mission and the times the GPS fix
\* is lost during it.
MaxEngineWaypoints == 3
MaxFixLosses == 1

\* self.critical_battery_level = 25.0 (percent)
critical_battery_level == 25
\* self.gps_recovery_timeout = 15.0 (seconds); handle_gps_loss polls once
\* a second
gps_recovery_timeout == 15
\* failsafe_loop and handle_gps_loss: "fix_type < 3", "fix_type >= 3"
FAILSAFE_MIN_FIX == 3

\* The battery levels and GPS fixes the watchdog may sample.
EngineLevels == {50, 20}
EngineFixes == {3, 1}

\* An entry of the log: a vehicle command (takeoff, goto, mode, post), an
\* observation of the navigation loop (reached, timeout), an emergency
\* trigger of the watchdog (trigger) or an emergency maneuver that was
\* scheduled on the event loop (task).
Ev(ev, wp, what, by) == [ev |-> ev, wp |-> wp, what |-> what, by |-> by]

\* asyncio.create_task needs the running event loop of the calling thread:
\* called on a thread without one it raises RuntimeError, and the coroutine
\* object it was given never runs.
CreateTask(on_loop_thread) == IF on_loop_thread THEN "scheduled" ELSE "raised"

\* The failsafe loop is the target of a threading.Thread.
FailsafeOnLoopThread == FALSE

\* trigger_emergency_land: the flag is cleared and emergency_land is given
\* to create_task; its exception is caught and printed.
TriggerEmergencyLand(log) ==
    LET triggered == Append(log, Ev("trigger", 0, "LAND", "watchdog"))
    IN IF CreateTask(FailsafeOnLoopThread) = "scheduled"
       THEN Append(triggered, Ev("task", 0, "emergency_land", "watchdog"))
       ELSE triggered

\* trigger_emergency_rtl: the flag is cleared and rtl(emergency_override)
\* is given to create_task; if that raises, trigger_emergency_land.
TriggerEmergencyRtl(log) ==
    LET triggered == Append(log, Ev("trigger", 0, "RTL", "watchdog"))
    IN IF CreateTask(FailsafeOnLoopThread) = "scheduled"
       THEN Append(triggered, Ev("task", 0, "rtl", "watchdog"))
       ELSE TriggerEmergencyLand(triggered)

\* execute_waypoint_mission returns: "finally" runs cleanup(), which clears
\* mission_active and sets stop_monitoring.
EngineReturns(e, result) ==
    [e EXCEPT !.pc = "done", !.result = result, !.mission_active = FALSE,
              !.stop_monitoring = TRUE]

\* "if not self.mission_active or self.manual_override" (fly_to_waypoints)
\* and "if self.manual_override or not self.mission_active"
\* (fly_to_waypoint).
MissionStopped(e) == ~e.mission_active \/ e.manual_override

\* fly_to_waypoints: "if not success: return False".
WaypointFailedNever(success) == FALSE

WaypointFailed(success) == ~success

\* execute_waypoint_mission, steps 1 to 5 up to the await of
\* arm_and_takeoff: connection, pre-flight checks and waypoint processing
\* (any of which may fail), then the monitoring threads are started and the
\* controller's arm_and_takeoff is called.
ExecuteWaypointMission ==
    /\ eng.pc = "idle"
    /\ \E total \in 1..MaxEngineWaypoints, ready \in BOOLEAN :
          IF ~ready
          THEN /\ eng' = EngineReturns([eng EXCEPT !.total = total], "false")
               /\ UNCHANGED <<fsafe, elog>>
          ELSE /\ eng' = [eng EXCEPT !.pc = "takeoff", !.total = total]
               /\ fsafe' = [fsafe EXCEPT !.pc = "check"]
               /\ elog' = Append(elog, Ev("takeoff", 0, "none", "mission"))
    /\ UNCHANGED <<tele, notEngine>>

\* arm_and_takeoff returns.  On success fly_to_waypoints begins: it sets
\* mission_active and resets waypoints_visited.
ArmAndTakeoffReturns ==
    /\ eng.pc = "takeoff"
    /\ \E success \in BOOLEAN :
          eng' = IF success
                 THEN [eng EXCEPT !.pc = "nav_check", !.wp = 1,
                                  !.mission_active = TRUE,
                                  !.waypoints_visited = 0]
                 ELSE EngineReturns(eng, "false")
    /\ UNCHANGED <<fsafe, tele, elog, notEngine>>

\* The head of the loop of fly_to_waypoints for the next waypoint.
NavCheck ==
    /\ eng.pc = "nav_check"
    /\ eng' = IF MissionStopped(eng) THEN EngineReturns(eng, "false")
              ELSE [eng EXCEPT !.pc = "goto"]
    /\ UNCHANGED <<fsafe, tele, elog, notEngine>>

\* fly_to_waypoint: self.vehicle.simple_goto(target_location).
IssueGoto ==
    /\ eng.pc = "goto"
    /\ eng' = [eng EXCEPT !.pc = "flying"]
    /\ elog' = Append(elog, Ev("goto", eng.wp, "none", "mission"))
    /\ UNCHANGED <<fsafe, tele, notEngine>>

\* One turn of the arrival loop of fly_to_waypoint: the flags first, then
\* "distance <= arrival_threshold", then the timeout, else it sleeps 1 s
\* (which changes nothing).  A failed waypoint ends fly_to_waypoints and
\* with it the mission.
FlyPoll ==
    /\ eng.pc = "flying"
    /\ IF MissionStopped(eng)
       THEN /\ eng' = EngineReturns(eng, "false")
            /\ UNCHANGED elog
       ELSE \E arrived \in BOOLEAN :
              LET success == arrived
                  ev == IF arrived THEN "reached" ELSE "timeout"
              IN /\ elog' = Append(elog, Ev(ev, eng.wp, "none", "mission"))
                 /\ eng' = IF WaypointFailed(success)
                           THEN EngineReturns(eng, "false")
                           ELSE [eng EXCEPT
                                   !.pc = "settle",
                                   !.waypoints_visited =
                                       IF arrived THEN @ + 1 ELSE @]
    /\ UNCHANGED <<fsafe, tele, notEngine>>

\* "await asyncio.sleep(2)" between waypoints is over: the next waypoint,
\* or the loop is exhausted, fly_to_waypoints returns True (its "finally"
\* clears mission_active) and complete_mission calls the controller's rtl.
SettleDone ==
    /\ eng.pc = "settle"
    /\ IF eng.wp < eng.total
       THEN /\ eng' = [eng EXCEPT !.pc = "nav_check", !.wp = @ + 1]
            /\ UNCHANGED elog
       ELSE /\ eng' = [eng EXCEPT !.pc = "completing",
                                  !.mission_active = FALSE]
            /\ elog' = Append(elog, Ev("post", 0, "RTL", "mission"))
    /\ UNCHANGED <<fsafe, tele, notEngine>>

\* complete_mission returns: True after the RTL and the disarm, else the
\* result of the controller's emergency_land.
CompleteMissionReturns ==
    /\ eng.pc = "completing"
    /\ \E success \in BOOLEAN :
          eng' = EngineReturns(eng, IF success THEN "true" ELSE "false")
    /\ UNCHANGED <<fsafe, tele, elog, notEngine>>

\* set_manual_override(True), called by stop_mission while the mission
\* runs: the flag, then LOITER is commanded.
SetManualOverride ==
    /\ eng.pc \notin {"idle", "done"}
    /\ ~eng.manual_override
    /\ eng' = [eng EXCEPT !.manual_override = TRUE]
    /\ tele' = [tele EXCEPT !.mode = "LOITER"]
    /\ elog' = Append(elog, Ev("mode", 0, "LOITER", "override"))
    /\ UNCHANGED <<fsafe, notEngine>>

\* One turn of failsafe_loop, from its loop condition to its sleep: the
\* battery check (which ends the thread), the GPS check (which enters
\* handle_gps_loss: ALT_HOLD is commanded), the mode safeguard.
FailsafeSample ==
    /\ fsafe.pc = "check"
    /\ IF eng.stop_monitoring \/ ~eng.mission_active
       THEN /\ fsafe' = [fsafe EXCEPT !.pc = "exited"]
            /\ UNCHANGED <<eng, tele, elog>>
       ELSE IF tele.level < critical_battery_level
       THEN /\ fsafe' = [fsafe EXCEPT !.pc = "exited"]
            /\ eng' = [eng EXCEPT !.mission_active = FALSE]
            /\ elog' = TriggerEmergencyRtl(elog)
            /\ UNCHANGED tele
       ELSE IF tele.fix < FAILSAFE_MIN_FIX
       THEN /\ fsafe' = [fsafe EXCEPT !.pc = "gps_wait", !.waited = 0]
            /\ tele' = [tele EXCEPT !.mode = "ALT_HOLD"]
            /\ elog' = Append(elog, Ev("mode", 0, "ALT_HOLD", "watchdog"))
            /\ UNCHANGED eng
       ELSE IF tele.mode # "GUIDED" /\ ~eng.manual_override
       THEN /\ tele' = [tele EXCEPT !.mode = "GUIDED"]
            /\ elog' = Append(elog, Ev("mode", 0, "GUIDED", "watchdog"))
            /\ UNCHANGED <<eng, fsafe>>
       ELSE /\ fsafe' = fsafe
            /\ UNCHANGED <<eng, tele, elog>>
    /\ UNCHANGED notEngine

\* One turn of the recovery loop of handle_gps_loss: with the fix back
\* GUIDED is commanded and the failsafe loop goes on; else it sleeps 1 s;
\* after gps_recovery_timeout trigger_emergency_land is called, and the
\* failsafe loop goes on to its next turn.
GpsRecoveryPoll ==
    /\ fsafe.pc = "gps_wait"
    /\ IF fsafe.waited < gps_recovery_timeout
       THEN IF tele.fix >= FAILSAFE_MIN_FIX
            THEN /\ fsafe' = [fsafe EXCEPT !.pc = "check"]
                 /\ tele' = [tele EXCEPT !.mode = "GUIDED"]
                 /\ elog' = Append(elog, Ev("mode", 0, "GUIDED", "watchdog"))
                 /\ UNCHANGED eng
            ELSE /\ fsafe' = [fsafe EXCEPT !.waited = @ + 1]
                 /\ UNCHANGED <<eng, tele, elog>>
       ELSE /\ fsafe' = [fsafe EXCEPT !.pc = "check"]
            /\ eng' = [eng EXCEPT !.mission_active = FALSE]
            /\ elog' = TriggerEmergencyLand(elog)
            /\ UNCHANGED tele
    /\ UNCHANGED notEngine

\* The battery drains while the mission is in progress.
EngineBatteryDrains ==
    /\ eng.pc \notin {"idle", "done"}
    /\ \E level \in EngineLevels :
          /\ level < tele.level
          /\ tele' = [tele EXCEPT !.level = level]
    /\ UNCHANGED <<eng, fsafe, elog, notEngine>>

\* The GPS fix is lost, or comes back, while the mission is in progress.
EngineFixChanges ==
    /\ eng.pc \notin {"idle", "done"}
    /\ \E fix \in EngineFixes :
          /\ fix # tele.fix
          /\ fix < FAILSAFE_MIN_FIX => tele.losses < MaxFixLosses
          /\ tele' = [tele EXCEPT
                        !.fix = fix,
                        !.losses = IF fix < FAILSAFE_MIN_FIX THEN @ + 1
                                   ELSE @]
    /\ UNCHANGED <<eng, fsafe, elog, notEngine>>

NextEngine ==
    \/ ExecuteWaypointMission
    \/ ArmAndTakeoffReturns
    \/ NavCheck
    \/ IssueGoto
    \/ FlyPoll
    \/ SettleDone
    \/ CompleteMissionReturns
    \/ SetManualOverride
    \/ FailsafeSample
    \/ GpsRecoveryPoll
    \/ EngineBatteryDrains
    \/ EngineFixChanges

InitEngine ==
    LedgerIdle /\ ManeuverIdle /\ NegotiationIdle /\ GateIdle /\ WatchIdle

SpecEngine == InitEngine /\ [][NextEngine]_vars

(***************************************************************************)
(* Properties of the autonomous waypoint mission                           *)
(***************************************************************************)

\* The places of the log that hold an event of one kind.
Events(ev) == {k \in 1..Len(elog) : elog[k].ev = ev}

\* A vehicle command the mission issues of its own: takeoff, goto, the
\* RTL of complete_mission.
MissionCommand(e) ==
    e.by = "mission" /\ e.ev \in {"takeoff", "goto", "mode", "post"}

\* An emergency maneuver was scheduled after place k of the log.
ManeuverAfter(k, fns) ==
    \E j \in (k + 1)..Len(elog) : elog[j].ev = "task" /\ elog[j].what \in fns

\* execute_waypoint_mission has started the monitoring and not returned.
MissionInProgress == eng.pc \notin {"idle", "done"}

\* C21: an emergency trigger raised during a mission terminates it: after
\* the trigger the mission issues no further vehicle command of its own
\* (goto, takeoff, mode change), whether or not the manual-override flag is
\* set, and an emergency maneuver is executed.
C21_EmergencyTerminatesMission ==
    \A k \in Events("trigger") :
       /\ \A j \in (k + 1)..Len(elog) : ~MissionCommand(elog[j])
       /\ \/ ManeuverAfter(k, {"rtl", "emergency_land"})
          \/ \E j \in 1..(k - 1) : elog[j].ev = "trigger"

\* C22: the failsafe watchdog keeps sampling for as long as the mission is
\* in progress (from the start of monitoring through takeoff and
\* navigation until the engine returns), and a battery percent sampled
\* below the critical threshold leads to a Return-to-Launch maneuver.
C22_CriticalBatteryLeadsToRtl ==
    /\ MissionInProgress /\ Events("trigger") = {} => fsafe.pc # "exited"
    /\ \A k \in Events("trigger") :
          elog[k].what = "RTL" => ManeuverAfter(k, {"rtl"})

C27_PostMissionOnlyAfterCleanRun ==
    /\ Cardinality(Events("post")) <= 1
    /\ \A k \in Events("post") :
          /\ \A i \in 1..eng.total :
                \E j \in 1..(k - 1) :
                   elog[j].ev = "reached" /\ elog[j].wp = i
          /\ \A j \in 1..(k - 1) :
                /\ elog[j].ev \notin {"timeout", "trigger"}
                /\ elog[j].by # "override"

\* C28: a GPS fix sampled below 3D makes the watchdog command the
\* altitude-hold mode and wait at most the recovery timeout; with the fix
\* back in time the mission mode is commanded again, otherwise an
\* Emergency-Land maneuver is executed.
C28_GpsLossHoldsThenLands ==
    /\ fsafe.pc = "gps_wait" =>
          /\ fsafe.waited <= gps_recovery_timeout
          /\ \E k \in Events("mode") : elog[k].what = "ALT_HOLD"
    /\ \A k \in Events("trigger") :
          elog[k].what = "LAND" /\ Events("trigger") = {k} =>
             ManeuverAfter(k, {"emergency_land"})

(***************************************************************************)
(* Part 7.  The timed hold mission (controller.py: fly_timed_mission)      *)
(*                                                                         *)
(* Time is in seconds, the polling interval of the hold loop.  The         *)
(* maneuvers the mission awaits (takeoff, rtl, land and the battery        *)
(* negotiation) are those of Parts 2 and 3; here only their results count. *)
(***************************************************************************)

\* Bound: the longest hold, in seconds.
MaxHold == 3

\* The battery levels read during a timed mission.
TimedLevels == {50, 30, 20}

\* The results of handle_battery_emergency.
EmergencyResults ==
    {"rtl", "rtl_failed", "land", "land_failed", "timeout_rtl",
     "timeout_rtl_failed", "error"}

\* The results of handle_battery_emergency word by word, as the strings
\* are written: 'timeout_rtl_failed' is "timeout", "rtl", "failed".
ResultWords ==
    [rtl |-> <<"rtl">>, rtl_failed |-> <<"rtl", "failed">>,
     land |-> <<"land">>, land_failed |-> <<"land", "failed">>,
     timeout_rtl |-> <<"timeout", "rtl">>,
     timeout_rtl_failed |-> <<"timeout", "rtl", "failed">>,
     error |-> <<"error">>]

\* str.startswith(prefix)
StartsWith(words, prefix) ==
    /\ Len(prefix) <= Len(words)
    /\ SubSeq(words, 1, Len(prefix)) = prefix

\* "emergency_result.startswith(('rtl', 'land', 'timeout_rtl'))"
StartsWithAction(emergency_result) ==
    \E prefix \in {<<"rtl">>, <<"land">>, <<"timeout", "rtl">>} :
        StartsWith(ResultWords[emergency_result], prefix)

\* "battery_level <= 30 and not battery_emergency_triggered and
\* broadcast_func"
BatteryTrigger(t) ==
    /\ t.level <= BATTERY_TRIGGER_LEVEL
    /\ ~t.battery_emergency_triggered
    /\ t.broadcast_func

\* fly_timed_mission returns.
TimedReturns(t, result) == [t EXCEPT !.pc = "done", !.result = result]

\* "emergency_result = await self.handle_battery_emergency(broadcast_func)"
HandOver(t) ==
    [t EXCEPT !.pc = "emergency", !.battery_emergency_triggered = TRUE,
              !.calls = Append(@, "handle_battery_emergency")]

\* Step 3, "Return to Launch": the battery negotiation if the battery asks
\* for it, else the controller's rtl.
AfterHold(t) ==
    IF BatteryTrigger(t)
    THEN [HandOver(t) EXCEPT !.battery_emergency_triggered = FALSE]
    ELSE [t EXCEPT !.pc = "rtl", !.calls = Append(@, "rtl")]

\* fly_timed_mission up to the await of takeoff: the validation of the
\* inputs, the readiness gate, the armed check; then current_mission is
\* set and takeoff called.
StartTimedMission ==
    /\ timed.pc = "idle"
    /\ \E valid \in BOOLEAN, duration \in 1..MaxHold,
          level \in TimedLevels, armed \in BOOLEAN,
          broadcast_func \in BOOLEAN :
          LET t == [timed EXCEPT !.duration = duration, !.level = level,
                                 !.armed = armed,
                                 !.broadcast_func = broadcast_func]
              ready == VehicleReady([GoodSnapshot EXCEPT !.level = level],
                                    FALSE, FALSE)
          IN timed' = IF ~valid \/ ~ready \/ ~armed
                      THEN TimedReturns(t, "false")
                      ELSE [t EXCEPT !.pc = "takeoff",
                                     !.current_mission = "timed_flight",
                                     !.calls = Append(@, "takeoff")]
    /\ UNCHANGED notTimed

\* takeoff returns: a failed takeoff ends the mission, else the hold
\* begins.
TimedTakeoffReturns ==
    /\ timed.pc = "takeoff"
    /\ \E success \in BOOLEAN :
          timed' = IF success THEN [timed EXCEPT !.pc = "hold"]
                   ELSE TimedReturns(timed, "false")
    /\ UNCHANGED notTimed

\* One turn of the hold loop: the duration, the armed check, the battery
\* check, else one second of sleep.
HoldPoll ==
    /\ timed.pc = "hold"
    /\ timed' =
         IF timed.elapsed >= timed.duration \/ ~timed.armed
         THEN AfterHold(timed)
         ELSE IF BatteryTrigger(timed)
         THEN HandOver(timed)
         ELSE [timed EXCEPT
                 !.elapsed = @ + 1,
                 !.polls_after_override =
                     IF timed.manual_override THEN @ + 1 ELSE @,
                 !.polls_after_emergency =
                     IF timed.level <= BATTERY_TRIGGER_LEVEL THEN @ + 1
                     ELSE @]
    /\ UNCHANGED notTimed

\* handle_battery_emergency returns: "Mission ends here regardless of
\* choice".  The readiness gate at its head refuses a battery below
\* MIN_BATTERY_LEVEL with 'error'.
TimedEmergencyReturns ==
    /\ timed.pc = "emergency"
    /\ \E emergency_result \in EmergencyResults :
          /\ (emergency_result = "error") =
                ~VehicleReady([GoodSnapshot EXCEPT !.level = timed.level],
                              FALSE, FALSE)
          /\ timed' = TimedReturns(
                         [timed EXCEPT !.current_mission = "none",
                                       !.emergency_result = emergency_result],
                         IF StartsWithAction(emergency_result) THEN "true"
                         ELSE "false")
    /\ UNCHANGED notTimed

\* rtl returns: success ends the mission; after a failure land is called,
\* with the emergency override below MIN_BATTERY_LEVEL.
TimedRtlReturns ==
    /\ timed.pc = "rtl"
    /\ \E success \in BOOLEAN :
          timed' =
            IF success
            THEN TimedReturns([timed EXCEPT !.current_mission = "none"],
                              "true")
            ELSE [timed EXCEPT
                    !.pc = "land",
                    !.calls = Append(@, IF timed.level < MIN_BATTERY_LEVEL
                                        THEN "land_here_override"
                                        ELSE "land")]
    /\ UNCHANGED notTimed

\* land returns: "return False" if it failed, else the mission succeeded.
TimedLandReturns ==
    /\ timed.pc = "land"
    /\ \E success \in BOOLEAN :
          timed' =
            IF success
            THEN TimedReturns([timed EXCEPT !.current_mission = "none"],
                              "true")
            ELSE TimedReturns(timed, "false")
    /\ UNCHANGED notTimed

\* The battery drains during the mission.
TimedBatteryDrains ==
    /\ timed.pc \in {"takeoff", "hold"}
    /\ \E level \in TimedLevels :
          /\ level < timed.level
          /\ timed' = [timed EXCEPT !.level = level]
    /\ UNCHANGED notTimed

\* The vehicle disarms during the hold.
TimedVehicleDisarms ==
    /\ timed.pc = "hold"
    /\ timed.armed
    /\ timed' = [timed EXCEPT !.armed = FALSE]
    /\ UNCHANGED notTimed

\* The operator asks for the manual override during a timed mission
\* (set_waypoint_override): nothing of the controller takes note of it.
TimedOverrideRequested ==
    /\ timed.pc \in {"takeoff", "hold"}
    /\ ~timed.manual_override
    /\ timed' = [timed EXCEPT !.manual_override = TRUE]
    /\ UNCHANGED notTimed

NextTimed ==
    \/ StartTimedMission
    \/ TimedTakeoffReturns
    \/ HoldPoll
    \/ TimedEmergencyReturns
    \/ TimedRtlReturns
    \/ TimedLandReturns
    \/ TimedBatteryDrains
    \/ TimedVehicleDisarms
    \/ TimedOverrideRequested

InitTimed ==
    LedgerIdle /\ ManeuverIdle /\ NegotiationIdle /\ GateIdle /\ WatchIdle

SpecTimed == InitTimed /\ [][NextTimed]_vars

(***************************************************************************)
(* Properties of the timed hold mission and of the manual override         *)
(***************************************************************************)

\* C24: during the hold phase of a timed hold mission an emergency trigger
\* (the battery at or below the trigger level) ends the hold before its
\* duration completes and hands control to the emergency negotiation: no
\* turn of the hold loop that reads such a battery goes back to sleep, and
\* the mission does not go on to its ordinary return.
C24_EmergencyEndsHold ==
    /\ timed.polls_after_emergency = 0
    /\ timed.pc \in {"rtl", "land"} => timed.level > BATTERY_TRIGGER_LEVEL

\* C25: the manual-override flag is checked at every iteration of the
\* waypoint-navigation loop and of the timed-hold loop: once it is set the
\* loop returns at its next iteration, no further waypoint is reached and
\* no further second of the hold is completed; setting it commands the
\* stabilizing hold mode.
C25_OverrideStopsLoops ==
    /\ timed.polls_after_override = 0
    /\ eng.manual_override =>
          \E k \in Events("mode") :
             /\ elog[k] = Ev("mode", 0, "LOITER", "override")
             /\ \A j \in (k + 1)..Len(elog) :
                   elog[j].ev \notin {"reached", "timeout"}

\* The waypoint-navigation half of C25 has a case: the override was set
\* while the mission was flying to a waypoint and the mission has returned.
WaypointLoopOverridden ==
    /\ eng.manual_override
    /\ eng.pc = "done"
    /\ Events("goto") # {}
    /\ Events("post") = {}

\* C29: when the mission engine returns control - on success, failure,
\* abort or emergency alike - no mission remains current.
C29_MissionDroppedOnReturn ==
    timed.pc = "done" => timed.current_mission = "none"

(***************************************************************************)
(* Part 8: the heartbeat watchdog                                          *)
(*                                                                         *)
(* Connection.start_heartbeat_monitor (connection.py) starts one monitor   *)
(* task.  Each turn of its loop reads the vehicle's last_heartbeat - the   *)
(* seconds since the last heartbeat, or None - counts it when it is above  *)
(* the staleness threshold, and on the third stale sample in a row calls   *)
(* emergency_callback if the connection object has such an attribute.      *)
(* hbmon.samples keeps the readings of the running monitor in order,       *)
(* hbmon.triggered_at the samples at which the "CONNECTION LOST" branch    *)
(* was entered and hbmon.callbacks the emergency callbacks made.           *)
(***************************************************************************)

\* The samples one monitor task takes.
MaxSamples == 7

\* connection.py: "self.last_heartbeat > 3.0" and
\* "consecutive_bad_heartbeats >= 3".
HEARTBEAT_STALE_AFTER == 3
BAD_HEARTBEATS_TO_TRIGGER == 3

\* getattr(self.vehicle, "last_heartbeat", None): no reading (NoReading),
\* or an age in seconds at, below and above the threshold.
HeartbeatAges == {NoReading, 0, 3, 4}

\* "if self.last_heartbeat and self.last_heartbeat > 3.0": None and 0 are
\* falsy, so neither is counted.
Stale(last_heartbeat) ==
    /\ last_heartbeat # NoReading
    /\ last_heartbeat # 0
    /\ last_heartbeat > HEARTBEAT_STALE_AFTER

\* hasattr(self, 'emergency_callback'): Connection.__init__ sets no such
\* attribute and nothing in the repository assigns one.
HasEmergencyCallback == FALSE

\* start_heartbeat_monitor: a second call while monitoring returns at
\* once; otherwise a fresh monitor() closure starts with its counter at 0.
StartHeartbeatMonitor ==
    /\ ~hbmon.monitoring
    /\ hbmon' = [NoMonitor EXCEPT !.monitoring = TRUE]
    /\ UNCHANGED notHeartbeat

\* stop_heartbeat_monitor: clears the flag and cancels the monitor task.
StopHeartbeatMonitor ==
    /\ hbmon.monitoring
    /\ hbmon' = [hbmon EXCEPT !.monitoring = FALSE]
    /\ UNCHANGED notHeartbeat

\* One turn of the loop of monitor(), from the read of last_heartbeat to
\* the sleep.
HeartbeatSample(last_heartbeat) ==
    /\ hbmon.monitoring
    /\ Len(hbmon.samples) < MaxSamples
    /\ LET n == Len(hbmon.samples) + 1
           count == hbmon.consecutive_bad_heartbeats + 1
           lost == Stale(last_heartbeat) /\ count >= BAD_HEARTBEATS_TO_TRIGGER
       IN hbmon' =
            [hbmon EXCEPT
               !.samples = Append(@, last_heartbeat),
               !.consecutive_bad_heartbeats =
                   IF Stale(last_heartbeat) /\ ~lost THEN count ELSE 0,
               !.triggered_at = IF lost THEN @ \cup {n} ELSE @,
               !.callbacks =
                   IF lost /\ HasEmergencyCallback THEN @ + 1 ELSE @]
    /\ UNCHANGED notHeartbeat

NextHeartbeat ==
    \/ StartHeartbeatMonitor
    \/ StopHeartbeatMonitor
    \/ \E last_heartbeat \in HeartbeatAges : HeartbeatSample(last_heartbeat)

InitHeartbeat ==
    /\ LedgerIdle /\ ManeuverIdle /\ NegotiationIdle /\ GateIdle
    /\ EngineIdle /\ TimedIdle /\ WaitIdle /\ ProcessingIdle /\ SitlIdle
    /\ hbmon = NoMonitor

SpecHeartbeat == InitHeartbeat /\ [][NextHeartbeat]_vars

(***************************************************************************)
(* Properties of Part 8                                                    *)
(***************************************************************************)

\* The stale samples in a row that end at sample i, by the threshold
\* written in the source.
RECURSIVE StaleRun(_)
StaleRun(i) ==
    IF i = 0 \/ ~(hbmon.samples[i] > HEARTBEAT_STALE_AFTER)
    THEN 0
    ELSE 1 + StaleRun(i - 1)

\* The samples that complete three stale samples in a row, the count
\* starting again after each such sample.
ThirdStaleSamples ==
    {i \in 1..Len(hbmon.samples) :
        /\ StaleRun(i) > 0
        /\ StaleRun(i) % BAD_HEARTBEATS_TO_TRIGGER = 0}

\* The counting alone: the "CONNECTION LOST" branch is entered exactly at
\* every third stale sample in a row, and the counter holds the stale
\* samples since the last fresh sample or the last trigger.
HeartbeatCountingExact ==
    /\ hbmon.triggered_at = ThirdStaleSamples
    /\ hbmon.consecutive_bad_heartbeats =
           StaleRun(Len(hbmon.samples)) % BAD_HEARTBEATS_TO_TRIGGER

\* C23: the heartbeat watchdog triggers a connection-loss emergency, which
\* leads to Emergency-Land or RTL, exactly when three consecutive samples
\* exceed the staleness threshold, and it resets its counter on triggering
\* and on every fresh sample.
C23_ThreeStaleSamplesTriggerEmergency ==
    /\ HeartbeatCountingExact
    /\ hbmon.callbacks = Cardinality(hbmon.triggered_at)

(***************************************************************************)
(* Part 9: the bounded waits                                               *)
(*                                                                         *)
(* Every wait of the maneuvers, the watchdog and the mission engines is a  *)
(* polling loop with a deadline.  wait is the loop of one such wait:       *)
(* wait.elapsed is the time since the loop noted its start and             *)
(* wait.ready_at the time at which the awaited condition becomes true,     *)
(* both in tenths of a second; a sleep lasts its nominal interval.         *)
(* Three loop shapes occur in the source:                                  *)
(*   "test_first":  while not cond: if elapsed > timeout: <deadline>;      *)
(*                  sleep                                                  *)
(*   "clock_first": while elapsed < timeout: if cond: <met>; sleep         *)
(*                  <deadline>                                             *)
(*   "joint":       while not cond and elapsed < timeout: sleep            *)
(*                  <goes on, whichever ended the loop>                    *)
(***************************************************************************)

\* The waits of controller.py: _wait_for_condition as arm() calls it for
\* the mode (10.0 s) and the arming (20.0 s), the climb loop of takeoff
\* (30.0 s), the touchdown loop of land (60.0 s, 1.0 s sleeps) and the
\* response loop of handle_battery_emergency (10 s).
ControllerWaits ==
    [mode |->
        [timeout |-> 100, interval |-> 5, loop |-> "test_first",
         on_deadline |-> "failure"],
     arm |->
        [timeout |-> 200, interval |-> 5, loop |-> "test_first",
         on_deadline |-> "failure"],
     altitude |->
        [timeout |-> 300, interval |-> 5, loop |-> "test_first",
         on_deadline |-> "failure"],
     landing |->
        [timeout |-> 600, interval |-> 10, loop |-> "test_first",
         on_deadline |-> "failure"],
     operator |->
        [timeout |-> 100, interval |-> 5, loop |-> "clock_first",
         on_deadline |-> "timeout_rtl"]]

\* The waits of autonomous_waypoint_mission.py: the recovery loop of
\* handle_gps_loss (gps_recovery_timeout, 1 s sleeps), which ends in
\* trigger_emergency_land, and the disarm loop of complete_mission (120 s,
\* 1 s sleeps), after which the mission disarms and returns True.
EngineWaits ==
    [gps |->
        [timeout |-> gps_recovery_timeout * 10, interval |-> 10,
         loop |-> "clock_first", on_deadline |-> "emergency_land"],
     disarm |->
        [timeout |-> 1200, interval |-> 10, loop |-> "test_first",
         on_deadline |-> "success"]]

\* The wait of waypoint_manager.py for LOITER before the operator is
\* prompted (5.0 s, 0.1 s sleeps): the code after the loop runs whether
\* the mode was confirmed or not.
ManagerWaits ==
    [loiter |->
        [timeout |-> 50, interval |-> 1, loop |-> "joint",
         on_deadline |-> "proceeds"]]

WaitKinds ==
    (DOMAIN ControllerWaits) \cup (DOMAIN EngineWaits) \cup
    (DOMAIN ManagerWaits)

WaitOf(kind) ==
    IF kind \in DOMAIN ControllerWaits THEN ControllerWaits[kind]
    ELSE IF kind \in DOMAIN EngineWaits THEN EngineWaits[kind]
    ELSE ManagerWaits[kind]

\* What a wait returns when its condition is met: the joint loop cannot
\* tell the two ways out apart.
MetResult(kind) ==
    IF WaitOf(kind).loop = "joint" THEN "proceeds" ELSE "success"

\* The times at which the awaited condition can become true: at once,
\* during the wait, at the deadline, one sleep after it, or later than
\* any turn of the loop.
ReadyTimes(kind) ==
    {0, WaitOf(kind).interval, WaitOf(kind).timeout,
     WaitOf(kind).timeout + WaitOf(kind).interval,
     WaitOf(kind).timeout + 2 * WaitOf(kind).interval}

\* check_fn(), the altitude test, the fix test, the stored response.
ConditionMet(w) == w.elapsed >= w.ready_at

\* "time.time() - start > timeout" of the test_first loops.
DeadlinePassed(w) == w.elapsed > WaitOf(w.kind).timeout

\* "time.time() - start < timeout" of the other two, negated.
DeadlineReached(w) == w.elapsed >= WaitOf(w.kind).timeout

\* The loop is entered: "start = time.time()".
StartWait(kind, ready_at) ==
    /\ wait.pc # "polling"
    /\ wait' = [kind |-> kind, pc |-> "polling", elapsed |-> 0,
                ready_at |-> ready_at, result |-> "none"]
    /\ UNCHANGED notWait

\* One turn of the loop: it ends with the condition, ends with the
\* deadline, or sleeps one interval.
WaitPoll ==
    /\ wait.pc = "polling"
    /\ LET k == WaitOf(wait.kind)
           met == [wait EXCEPT !.pc = "done", !.result = MetResult(wait.kind)]
           late == [wait EXCEPT !.pc = "done", !.result = k.on_deadline]
           sleep == [wait EXCEPT !.elapsed = @ + k.interval]
       IN wait' =
            CASE k.loop = "test_first" ->
                    IF ConditionMet(wait) THEN met
                    ELSE IF DeadlinePassed(wait) THEN late
                    ELSE sleep
              [] k.loop = "clock_first" ->
                    IF DeadlineReached(wait) THEN late
                    ELSE IF ConditionMet(wait) THEN met
                    ELSE sleep
              [] OTHER ->
                    IF ConditionMet(wait) THEN met
                    ELSE IF DeadlineReached(wait) THEN late
                    ELSE sleep
    /\ UNCHANGED notWait

NextWait ==
    \/ \E kind \in WaitKinds :
          \E ready_at \in ReadyTimes(kind) : StartWait(kind, ready_at)
    \/ WaitPoll

InitWait ==
    /\ LedgerIdle /\ ManeuverIdle /\ NegotiationIdle /\ GateIdle
    /\ EngineIdle /\ TimedIdle /\ HeartbeatIdle /\ ProcessingIdle
    /\ SitlIdle
    /\ wait = NoWait

SpecWait == InitWait /\ [][NextWait]_vars

(***************************************************************************)
(* Properties of Part 9                                                    *)
(***************************************************************************)

\* The wait ended without its condition having been seen true.
MissedDeadline(w) == w.pc = "done" /\ ~ConditionMet(w)

\* The outcomes that tell the caller the deadline was missed: False, and
\* the fallbacks the watchdog and the negotiation take on a timeout.
DeadlineOutcomes == {"failure", "emergency_land", "timeout_rtl"}

\* C30: every bounded wait ends no later than its deadline, and a missed
\* deadline is returned to the caller as an ordinary failure - no wait
\* is still polling after its deadline and none swallows it.
C30_WaitsEndByDeadline ==
    /\ wait.pc = "polling" => wait.elapsed <= WaitOf(wait.kind).timeout
    /\ MissedDeadline(wait) => wait.result \in DeadlineOutcomes

\* What holds of every wait: the loop ends at the first turn that finds
\* the deadline passed, at most one sleep after it.
WaitsEndOneSleepAfterDeadline ==
    wait.pc # "idle" =>
        wait.elapsed <= WaitOf(wait.kind).timeout + WaitOf(wait.kind).interval

\* What holds of the waits of controller.py, the recovery wait included:
\* a missed deadline is reported.
ReportingWaitsFail ==
    (MissedDeadline(wait) /\ wait.kind \notin {"disarm", "loiter"})
        => wait.result \in DeadlineOutcomes

\* A deadline that passed and was not reported.
SwallowedDeadline ==
    MissedDeadline(wait) /\ wait.result \notin DeadlineOutcomes

(***************************************************************************)
(* Further properties of the maneuvers (Part 2) and of the negotiation     *)
(* (Part 3)                                                                *)
(***************************************************************************)

\* C31: every core entry point returns a result value on every path: a
\* maneuver that has ended has returned True or False, none has let an
\* exception escape to its caller.
C31_EveryManeuverReturnsAResult ==
    op.st = "done" => op.result \in {"true", "false"}

\* C37: every response that handle_battery_emergency_response accepted
\* for the prompt determines the maneuver of the negotiation: after an
\* accepted LAND the action is the forced landing, never the timeout
\* default, and after an accepted RTL it is Return-to-Launch, never a
\* landing.
C37_AcceptedResponseDecidesManeuver ==
    Decided =>
        \A r \in Responses :
            (r.ok /\ r.id = "p1") => neg.action = r.choice

(***************************************************************************)
(* A further property of the timed hold mission (Part 7)                   *)
(***************************************************************************)

\* The results with which handle_battery_emergency reports that its
\* maneuver succeeded.
EmergencySucceeded == {"rtl", "land", "timeout_rtl"}

\* C38: fly_timed_mission reports success after a battery emergency only
\* if the maneuver the negotiation selected succeeded: a failed emergency
\* RTL or landing is reported as mission failure.
C38_FailedEmergencyIsMissionFailure ==
    (timed.pc = "done" /\ timed.emergency_result # "none"
                      /\ timed.result = "true")
        => timed.emergency_result \in EmergencySucceeded

(***************************************************************************)
(* A further property of the maneuvers: disarming in the air               *)
(***************************************************************************)

\* The disarm commands sent so far.
DisarmCommands == {i \in 1..Len(issued) : issued[i].cmd = "disarm"}

\* C36: no operation commands the vehicle to disarm while its altitude is
\* above the 2 m airborne threshold: every "armed = False" sent over the
\* link was sent at 2 m or below - by disarm(), by the takeoff-failure
\* path of arm_and_takeoff and by emergency_disarm alike.
C36_NoDisarmCommandAirborne ==
    \A i \in DisarmCommands : issued[i].alt <= DISARM_ALT_LIMIT

(***************************************************************************)
(* Part 10: waypoint processing                                            *)
(*                                                                         *)
(* A waypoint list reaches a mission through one of three pieces of code:  *)
(* AutonomousWaypointMission.validate_and_process_waypoints, the first     *)
(* lines of WaypointMissionManager.execute_mission (process_waypoints,     *)
(* then validate_waypoint_list of navigation_utils.py), and the            *)
(* conversion loop of handle_execute_waypoint_mission.                     *)
(* A waypoint is [lat, lon, alt, idx]: lat in degrees, lon in units of     *)
(* 1e-7 degree, alt in decimetres, idx its place in the list handed in.    *)
(* All waypoints with a valid latitude lie on the equator, where the       *)
(* Haversine distance is the arc of the longitude difference.              *)
(***************************************************************************)

\* The waypoints of a list handed in.
MaxList == 3

\* AutonomousWaypointMission: default_altitude = 20.0 and
\* min_waypoint_distance = 2.0 (millimetres here).
default_altitude == 200
min_waypoint_distance == 2000
\* SafetyConfig.MIN_ALTITUDE = 0.5, SafetyConfig.MAX_ALTITUDE = 30.0
MIN_ALTITUDE == 5
MAX_ALTITUDE == 300
\* WaypointValidator.validate_altitude: min_alt = 0.5, max_alt = 100.0
VALIDATOR_MIN_ALT == 5
VALIDATOR_MAX_ALT == 1000
\* validate_waypoint_list: "if distance < 1.0" (millimetres here)
DUPLICATE_DISTANCE == 1000
\* 180 degrees of longitude
LON_LIMIT == 1800000000

\* Longitudes 0, 0.0000095, 0.0000134, 0.000027 and 181 degrees;
\* altitudes 0, 0.3, 20, 50 and 500 m; one waypoint at latitude 91.
Lons == {0, 95, 134, 270, 1810000000}
Alts == {0, 3, 200, 500, 5000}
InputWaypoints ==
    [lat : {0}, lon : Lons, alt : Alts] \cup {[lat |-> 91, lon |-> 0, alt |-> 200]}

WaypointLists ==
    UNION {[1..n -> InputWaypoints] : n \in 1..MaxList}

\* The list with the place of each waypoint written into it.
Indexed(waypoints) ==
    [i \in 1..Len(waypoints) |->
        [lat |-> waypoints[i].lat, lon |-> waypoints[i].lon,
         alt |-> waypoints[i].alt, idx |-> i]]

\* "-90 <= lat <= 90" and "-180 <= lon <= 180"
ValidCoordinates(wp) ==
    /\ -90 <= wp.lat /\ wp.lat <= 90
    /\ -LON_LIMIT <= wp.lon /\ wp.lon <= LON_LIMIT

\* calculate_distance between two points of the equator, in millimetres:
\* R = 6371000 gives 11.11949 mm for 1e-7 degree.
Distance(a, b) ==
    LET d == IF a.lon >= b.lon THEN a.lon - b.lon ELSE b.lon - a.lon
    IN (d * 1111949) \div 100000

\* validate_and_process_waypoints, the altitude of one waypoint: the
\* default for None or a non-positive one, then the limits.
AssignAltitude(alt) ==
    LET a == IF alt <= 0 THEN default_altitude ELSE alt
    IN IF a < MIN_ALTITUDE THEN MIN_ALTITUDE
       ELSE IF a > MAX_ALTITUDE THEN MAX_ALTITUDE
       ELSE a

\* The merge loop: a waypoint closer than min_waypoint_distance to the
\* last one kept is dropped.
TooClose(distance) == distance < min_waypoint_distance

RECURSIVE MergeClose(_, _)
MergeClose(merged, rest) ==
    IF rest = << >> THEN merged
    ELSE IF TooClose(Distance(merged[Len(merged)], Head(rest)))
    THEN MergeClose(merged, Tail(rest))
    ELSE MergeClose(Append(merged, Head(rest)), Tail(rest))

\* AutonomousWaypointMission.validate_and_process_waypoints
validate_and_process_waypoints(waypoints) ==
    LET withAlt == [i \in 1..Len(waypoints) |->
                       [waypoints[i] EXCEPT !.alt = AssignAltitude(@)]]
        processed == SelectSeq(withAlt, ValidCoordinates)
    IN IF Len(processed) > 1
       THEN MergeClose(<<processed[1]>>, Tail(processed))
       ELSE processed

\* round(lon, 6): to the nearest 1e-6 degree; 0.0000095 goes to 0.00001.
Round6(lon) == ((lon + 5) \div 10) * 10

\* WaypointValidator.process_waypoints on numeric triples: every waypoint
\* is kept, rounded.
process_waypoints(waypoints) ==
    [i \in 1..Len(waypoints) |->
        [waypoints[i] EXCEPT !.lon = Round6(@)]]

\* WaypointValidator.validate_waypoint
validate_waypoint(wp) ==
    /\ ValidCoordinates(wp)
    /\ VALIDATOR_MIN_ALT <= wp.alt /\ wp.alt <= VALIDATOR_MAX_ALT

\* NavigationUtils.calculate_distance is infinite for a point out of
\* range.
Duplicates(a, b) ==
    /\ ValidCoordinates(a) /\ ValidCoordinates(b)
    /\ Distance(a, b) < DUPLICATE_DISTANCE

\* WaypointValidator.validate_waypoint_list: no issue with any waypoint
\* and no two waypoints less than a metre apart.
validate_waypoint_list(waypoints) ==
    /\ waypoints # << >>
    /\ \A i \in 1..Len(waypoints) : validate_waypoint(waypoints[i])
    /\ \A i, j \in 1..Len(waypoints) :
          i < j => ~Duplicates(waypoints[i], waypoints[j])

\* What each processor makes of a list: whether it goes on to a mission
\* and with which waypoints.
Processors == {"engine", "manager", "handler"}

Processed(by, waypoints) ==
    CASE by = "engine" ->
            LET out == validate_and_process_waypoints(waypoints)
            IN [accepted |-> out # << >>, out |-> out]
      [] by = "manager" ->
            LET out == process_waypoints(waypoints)
            IN IF validate_waypoint_list(out)
               THEN [accepted |-> TRUE, out |-> out]
               ELSE [accepted |-> FALSE, out |-> << >>]
      [] OTHER ->
            IF \A i \in 1..Len(waypoints) : ValidCoordinates(waypoints[i])
            THEN [accepted |-> TRUE, out |-> waypoints]
            ELSE [accepted |-> FALSE, out |-> << >>]

\* execute_waypoint_mission, step 3, of the autonomous mission.
EngineProcesses ==
    /\ wpp.input # << >> /\ wpp.by = "none"
    /\ wpp' = [wpp EXCEPT !.by = "engine",
                          !.accepted = Processed("engine", wpp.input).accepted,
                          !.out = Processed("engine", wpp.input).out]
    /\ UNCHANGED notProcessing

\* WaypointMissionManager.execute_mission up to "Create mission".
ManagerProcesses ==
    /\ wpp.input # << >> /\ wpp.by = "none"
    /\ wpp' = [wpp EXCEPT !.by = "manager",
                          !.accepted = Processed("manager", wpp.input).accepted,
                          !.out = Processed("manager", wpp.input).out]
    /\ UNCHANGED notProcessing

\* handle_execute_waypoint_mission up to the call of the controller.
HandlerConverts ==
    /\ wpp.input # << >> /\ wpp.by = "none"
    /\ wpp' = [wpp EXCEPT !.by = "handler",
                          !.accepted = Processed("handler", wpp.input).accepted,
                          !.out = Processed("handler", wpp.input).out]
    /\ UNCHANGED notProcessing

NextProcessing ==
    \/ EngineProcesses
    \/ ManagerProcesses
    \/ HandlerConverts

InitProcessing ==
    /\ LedgerIdle /\ ManeuverIdle /\ NegotiationIdle /\ GateIdle
    /\ EngineIdle /\ TimedIdle /\ HeartbeatIdle /\ WaitIdle /\ SitlIdle
    /\ \E waypoints \in WaypointLists :
          wpp = [NoProcessing EXCEPT !.input = Indexed(waypoints)]

SpecProcessing == InitProcessing /\ [][NextProcessing]_vars

(***************************************************************************)
(* Properties of Part 10                                                   *)
(***************************************************************************)

\* The waypoints of the input whose coordinates are in range.
ValidInput == SelectSeq(wpp.input, ValidCoordinates)

\* C32: a waypoint with an out-of-range latitude or longitude is skipped
\* and the valid ones still form the mission: no such waypoint is in the
\* output, and a list is turned down only if it would be turned down
\* without its out-of-range waypoints too.
C32_BadWaypointIsSkipped ==
    wpp.by # "none" =>
        /\ \A i \in 1..Len(wpp.out) : ValidCoordinates(wpp.out[i])
        /\ (~wpp.accepted /\ ValidInput # << >>)
              => ~Processed(wpp.by, ValidInput).accepted

\* C33: the processed mission is an order-preserving subsequence of the
\* valid input in which no two consecutive waypoints are closer than the
\* minimum separation; two waypoints about 1.05 m apart yield one.
C33_CloseWaypointsMerged ==
    (wpp.by \in {"engine", "manager"} /\ wpp.accepted) =>
        /\ \A i \in 1..Len(wpp.out) :
              ValidCoordinates(wpp.input[wpp.out[i].idx])
        /\ \A i \in 1..(Len(wpp.out) - 1) :
              /\ wpp.out[i].idx < wpp.out[i + 1].idx
              /\ Distance(wpp.out[i], wpp.out[i + 1]) >= min_waypoint_distance

\* C34: every waypoint of a processed mission has its latitude in
\* [-90, 90], its longitude in [-180, 180] and its altitude within the
\* configured limits; a non-positive altitude has become the default
\* altitude and one above the maximum has become the maximum.
C34_ProcessedWaypointInvariant ==
    (wpp.by \in {"engine", "manager"} /\ wpp.accepted) =>
        \A i \in 1..Len(wpp.out) :
            LET given == wpp.input[wpp.out[i].idx].alt
            IN /\ ValidCoordinates(wpp.out[i])
               /\ MIN_ALTITUDE <= wpp.out[i].alt
               /\ wpp.out[i].alt <= MAX_ALTITUDE
               /\ given <= 0 => wpp.out[i].alt = default_altitude
               /\ given > MAX_ALTITUDE => wpp.out[i].alt = MAX_ALTITUDE

(***************************************************************************)
(* Part 11: SITL detection and the limits of the GPS check                 *)
(*                                                                         *)
(* A connection string is a sequence of pieces ("tcp:", "127.0.0.1:",      *)
(* "5760"); the patterns of SITLConfig are sequences of the same pieces,   *)
(* and "pattern in string" is the search for the pattern as a run of       *)
(* consecutive pieces.                                                     *)
(***************************************************************************)

\* The GPS checks of a session.
MaxGpsChecks == 2

\* _detect_sitl_connection: "if eph > 50" (tenths here)
SITL_SUSPECT_EPH == 500

\* A simulator on this machine, two serial ports, a telemetry radio on the
\* local network, and a UDP port any vehicle may send to.
ConnectionStrings ==
    {<<"tcp:", "127.0.0.1:", "5760">>,
     <<"udp:", "localhost:", "14550">>,
     <<"/dev/tty", "USB0">>,
     <<"COM", "3">>,
     <<"udp:", "192.168.", "1.20:", "14550">>,
     <<"udp:", "0.0.0.0:", "14550">>}

\* SITLConfig.SITL_PATTERNS
SITL_PATTERNS ==
    {<<"tcp:", "127.0.0.1:">>, <<"tcp:", "localhost:">>,
     <<"udp:", "127.0.0.1:">>, <<"udp:", "localhost:">>,
     <<"127.0.0.1:", "14550">>, <<"127.0.0.1:", "5760">>,
     <<"localhost:", "14550">>, <<"localhost:", "5760">>}

\* SITLConfig.HARDWARE_INDICATORS
HARDWARE_INDICATORS ==
    {<<"/dev/tty">>, <<"COM">>, <<".serial">>, <<"hardware">>,
     <<"/dev/serial">>, <<"ttyUSB">>, <<"ttyACM">>}

\* str.lower(), piece by piece: of the pieces above only these have
\* capital letters.
LowerPiece(piece) ==
    CASE piece = "COM" -> "com"
      [] piece = "USB0" -> "usb0"
      [] piece = "ttyUSB" -> "ttyusb"
      [] piece = "ttyACM" -> "ttyacm"
      [] OTHER -> piece

Lower(str) == [i \in 1..Len(str) |-> LowerPiece(str[i])]

\* "pattern in str"
Contains(str, pattern) ==
    \E i \in 1..(Len(str) - Len(pattern) + 1) :
        SubSeq(str, i, i + Len(pattern) - 1) = pattern

\* SITLConfig._is_hardware_connection
IsHardwareConnection(connection_string) ==
    \E indicator \in HARDWARE_INDICATORS :
        Contains(Lower(connection_string), Lower(indicator))

\* SITLConfig.is_sitl_connection
IsSitlConnection(connection_string) ==
    /\ connection_string # << >>
    /\ ~IsHardwareConnection(connection_string)
    /\ \E pattern \in SITL_PATTERNS :
          Contains(Lower(connection_string), Lower(pattern))

\* SITLConfig.validate_sitl_safety
ValidateSitlSafety(connection_string) ==
    /\ ~IsHardwareConnection(connection_string)
    /\ IsSitlConnection(connection_string)
    /\ ~Contains(connection_string, <<"192.168.">>)
    /\ ~Contains(connection_string, <<"10.">>)

\* Controller._detect_sitl_connection on a ready vehicle: the flag, then
\* the ARMING_CHECK parameter, then the accuracy the GPS reports.  The
\* connection string is not looked at.
DetectSitlConnection(s, eph) ==
    \/ s.is_sitl
    \/ s.ARMING_CHECK = 0
    \/ eph > SITL_SUSPECT_EPH

\* Controller.setup_sitl_connection: refused unless validate_sitl_safety
\* passes; else the SITL parameters are written and is_sitl is set.
SetupSitlConnection ==
    /\ sitl.connection_string # << >>
    /\ sitl.setup = "none"
    /\ sitl' = IF ValidateSitlSafety(sitl.connection_string)
               THEN [sitl EXCEPT !.setup = "configured", !.ARMING_CHECK = 0,
                                 !.is_sitl = TRUE]
               ELSE [sitl EXCEPT !.setup = "rejected"]
    /\ UNCHANGED notSitl

\* The GPS integrity check of takeoff: the limits are those of
\* _detect_sitl_connection's answer.
TakeoffGpsCheck(eph, groundspeed) ==
    /\ sitl.connection_string # << >>
    /\ sitl.checks < MaxGpsChecks
    /\ LET is_sitl_connection == DetectSitlConnection(sitl, eph)
       IN sitl' = [sitl EXCEPT
                     !.checks = @ + 1,
                     !.eph = eph,
                     !.groundspeed = groundspeed,
                     !.relaxed = is_sitl_connection,
                     !.gps = GpsIntegrity(eph, groundspeed,
                                          is_sitl_connection)]
    /\ UNCHANGED notSitl

\* The accuracies (in tenths) and speeds the check can be handed, on both
\* sides of the strict limits, and the ARMING_CHECK values of a vehicle.
SessionEphs == {10, 30, 600}
SessionSpeeds == {5, 60}

NextSitl ==
    \/ SetupSitlConnection
    \/ \E eph \in SessionEphs, groundspeed \in SessionSpeeds :
          TakeoffGpsCheck(eph, groundspeed)

InitSitl ==
    /\ LedgerIdle /\ ManeuverIdle /\ NegotiationIdle /\ GateIdle
    /\ EngineIdle /\ TimedIdle /\ HeartbeatIdle /\ WaitIdle
    /\ ProcessingIdle
    /\ \E connection_string \in ConnectionStrings, arming_check \in {0, 1} :
          sitl = [NoSession EXCEPT !.connection_string = connection_string,
                                   !.ARMING_CHECK = arming_check]

SpecSitl == InitSitl /\ [][NextSitl]_vars

(***************************************************************************)
(* Properties of Part 11                                                   *)
(***************************************************************************)

\* C35: the GPS-accuracy and speed limits are relaxed only for simulated
\* vehicles: a GPS check of a session whose connection string matches a
\* physical-hardware pattern applies the strict limits, and the relaxed
\* ones are applied only on a connection that is recognised as SITL.
C35_StrictLimitsOnHardware ==
    sitl.checks > 0 =>
        /\ IsHardwareConnection(sitl.connection_string) => ~sitl.relaxed
        /\ sitl.relaxed => IsSitlConnection(sitl.connection_string)

\* The safety gate of the SITL set-up alone: it never configures a
\* connection that matches a hardware pattern.
SitlSetupRefusesHardware ==
    sitl.setup = "configured" =>
        /\ ~IsHardwareConnection(sitl.connection_string)
        /\ IsSitlConnection(sitl.connection_string)

(***************************************************************************)
(* Properties of the manual override                                       *)
(***************************************************************************)

\* The places of the log where GUIDED was commanded after the manual
\* override had been set.
GuidedAfterOverride ==
    {j \in Events("mode") :
        /\ elog[j].what = "GUIDED"
        /\ \E k \in 1..(j - 1) : elog[k] = Ev("mode", 0, "LOITER", "override")}

\* C40: once the manual-override flag is set no component of the mission
\* engine commands GUIDED again: neither the mode safeguard nor the
\* recovery from a GPS loss switches the vehicle back to GUIDED.
C40_NoGuidedAfterOverride == GuidedAfterOverride = {}

\* The mode safeguard alone keeps C40: with the override set and the
\* vehicle in a mode other than GUIDED, a turn of the failsafe loop that
\* reaches the safeguard leaves the mode as it is.
SafeguardRespectsOverride ==
    [][(FailsafeSample /\ eng.manual_override
          /\ tele.fix >= FAILSAFE_MIN_FIX) => tele'.mode = tele.mode]_vars

(***************************************************************************)
(* Part 12.  Aborting a waypoint mission                                   *)
(***************************************************************************)

\* WaypointManager.abort_mission(reason): without a current mission it
\* answers False; else the status of the current mission is set, the
\* event logged and True returned.  current_mission is assigned once per
\* execute_mission and never cleared, so the call finds a mission while
\* one runs and after it has returned.  Nothing else is written: the loop
\* of execute_mission does not read the status.
AbortMission ==
    /\ mis.pc # "idle"
    /\ mis' = [mis EXCEPT !.status = "ABORTED",
                          !.terminal = IF @ = "none" THEN "ABORTED" ELSE @]
    /\ UNCHANGED <<clock, neg, ctl_prompts, cleanups, wm_prompts, responses,
                   notNegotiation>>

NextAbort ==
    \/ StartMission
    \/ PreWaypointCheck
    \/ PromptAnswered
    \/ PromptTimeout
    \/ \E id \in WmPromptIds, choice \in WmChoices :
          HandleEmergencyResponse(id, choice)
    \/ WaypointReached
    \/ WaypointTimeout
    \/ MonitorEmergencies
    \/ BatteryDrains
    \/ ClockTick
    \/ AbortMission

InitAbort == InitNegotiation

SpecAbort == InitAbort /\ [][NextAbort]_vars

(***************************************************************************)
(* Properties of the mission status                                        *)
(***************************************************************************)

\* C39: COMPLETED and ABORTED are terminal: once the status of a mission
\* is ABORTED (by abort_mission or by a failed waypoint) it never changes
\* again and no further waypoint is flown, and once it is COMPLETED it
\* stays so; a mission is COMPLETED only with every waypoint reached.
C39_TerminalStatuses ==
    /\ mis.terminal # "none" => mis.status = mis.terminal
    /\ ~mis.gotoAfterAbort
    /\ mis.status = "COMPLETED" => mis.pc = "done" /\ mis.wp = mis.total

\* A mission that was aborted while it flew and is COMPLETED all the same.
CompletedAfterAbort ==
    mis.terminal = "ABORTED" /\ mis.status = "COMPLETED"

====
